---- MODULE Spec2Model ----
(***************************************************************************)
(* Storage-driver conformance suite (docs/storage/driver/testsuites).      *)
(*                                                                         *)
(* The suite's scenarios, helpers and generators are translated from       *)
(* testsuites.go.  The driver the suite runs against is the contract of    *)
(* spec.md section 4 (path grammar, operations, error taxonomy): the       *)
(* operators of the section "storage driver contract" below.               *)
(*                                                                         *)
(* Strings are sequences of one-character strings: "/a/b" is               *)
(* <<"/", "a", "/", "b">>.  Byte contents are sequences over Bytes.        *)
(***************************************************************************)
EXTENDS Integers, Sequences, FiniteSets, TLC

VARIABLES
    store,        \* the backend: content path |-> [data, size]
    consistency,  \* kind of backend: "strong" or "eventual"
    randomBytes,  \* the package-level buffer randomContents slices
    pc,           \* position of the running scenario ("client": a caller other than the suite)
    op,           \* the driver operation issued last
    frame         \* local variables of the running scenario

vars == <<store, consistency, randomBytes, pc, op, frame>>

(***************************************************************************)
(* Bounds                                                                  *)
(***************************************************************************)
MaxLen == 2         \* longest content a client holds at one path
MaxChunk == 2       \* largest chunkSize a scenario is run with
RandLen == 10       \* len(randomBytes) (96 MiB in the suite)
PathLen == 4        \* length asked of randomPath (32 in the suite)

Bytes == {0, 1}

Min(a, b) == IF a < b THEN a ELSE b
Max(a, b) == IF a > b THEN a ELSE b

RECURSIVE SeqsUpTo(_, _)
SeqsUpTo(S, n) ==
    IF n = 0 THEN {<<>>}
    ELSE LET shorter == SeqsUpTo(S, n - 1)
         IN  shorter \cup {Append(s, x) : s \in {t \in shorter : Len(t) = n - 1}, x \in S}

Zeros(n) == [i \in 1..n |-> 0]

(***************************************************************************)
(* Strings                                                                 *)
(***************************************************************************)
Slash == "/"

HasPrefix(s, prefix) ==
    /\ Len(prefix) <= Len(s)
    /\ SubSeq(s, 1, Len(prefix)) = prefix

\* strings.Contains on a text kept as a sequence of tokens
Contains(text, token) == \E i \in 1..Len(text) : text[i] = token

(***************************************************************************)
(* Path grammar (spec.md 4.1)                                              *)
(***************************************************************************)
ValidPath(p) ==
    /\ Len(p) > 0
    /\ p[1] = Slash
    /\ p # <<Slash>>
    /\ \A i \in 1..(Len(p) - 1) : ~(p[i] = Slash /\ p[i + 1] = Slash)
    /\ p[Len(p)] # Slash

\* q lies strictly below the directory prefix d ("/" is above every path)
Below(d, q) ==
    IF d = <<Slash>> THEN Len(q) > 1 /\ q[1] = Slash
    ELSE HasPrefix(q, d \o <<Slash>>) /\ Len(q) > Len(d) + 1

(***************************************************************************)
(* Error taxonomy (spec.md 4.2): every error carries the driver's name     *)
(***************************************************************************)
DriverName == "driver"

NoPath == <<>>
Nil == [type |-> "nil", path |-> NoPath, offset |-> 0, driver |-> ""]
InvalidPathError(p) == [type |-> "InvalidPath", path |-> p, offset |-> 0, driver |-> DriverName]
PathNotFoundError(p) == [type |-> "PathNotFound", path |-> p, offset |-> 0, driver |-> DriverName]
InvalidOffsetError(p, offset) ==
    [type |-> "InvalidOffset", path |-> p, offset |-> offset, driver |-> DriverName]
BackendError(p) == [type |-> "Backend", path |-> p, offset |-> 0, driver |-> DriverName]

\* err.Error(): "<driver>: <what>: <path>"
ErrorText(err) == <<err.driver, ": ", err.type, ": ", err.path>>

(***************************************************************************)
(* Storage driver contract (spec.md 4.2).  Each operation is a function of *)
(* the store s and returns the new store with its results.                 *)
(***************************************************************************)
EmptyStore == [p \in {} |-> 0]

Exists(s, p) == p \in DOMAIN s
IsDirPrefix(s, p) == \E q \in DOMAIN s : Below(p, q)
\* p cannot hold content: an ancestor is a content leaf, or p is a directory prefix
LeafConflict(s, p) ==
    \/ IsDirPrefix(s, p)
    \/ \E q \in DOMAIN s : Below(q, p)

WithEntry(s, p, entry) ==
    [q \in (DOMAIN s) \cup {p} |-> IF q = p THEN entry ELSE s[q]]
Without(s, gone) == [q \in (DOMAIN s) \ gone |-> s[q]]

PutContent(s, p, contents) ==
    IF ~ValidPath(p) THEN [store |-> s, err |-> InvalidPathError(p)]
    ELSE IF LeafConflict(s, p) THEN [store |-> s, err |-> BackendError(p)]
    ELSE [store |-> WithEntry(s, p, [data |-> contents, size |-> Len(contents)]),
          err |-> Nil]

\* what a read sees of an entry: the bytes up to the size Stat reports
Visible(entry) == SubSeq(entry.data, 1, entry.size)

GetContent(s, p) ==
    IF ~ValidPath(p) THEN [contents |-> <<>>, err |-> InvalidPathError(p)]
    ELSE IF ~Exists(s, p) THEN [contents |-> <<>>, err |-> PathNotFoundError(p)]
    ELSE [contents |-> Visible(s[p]), err |-> Nil]

\* the bytes of old with chunk laid over them from offset on, the gap zero-filled
Overlay(old, offset, chunk) ==
    [i \in 1..Max(Len(old), offset + Len(chunk)) |->
        IF i > offset /\ i <= offset + Len(chunk) THEN chunk[i - offset]
        ELSE IF i <= Len(old) THEN old[i]
        ELSE 0]

\* publish: whether the new size is visible to Stat when the call returns
\* (always on a strongly consistent backend)
WriteStream(s, p, offset, chunk, publish) ==
    IF offset < 0 THEN [store |-> s, nn |-> 0, err |-> InvalidOffsetError(p, offset)]
    ELSE IF ~ValidPath(p) THEN [store |-> s, nn |-> 0, err |-> InvalidPathError(p)]
    ELSE IF LeafConflict(s, p) THEN [store |-> s, nn |-> 0, err |-> BackendError(p)]
    ELSE LET old == IF Exists(s, p) THEN s[p].data ELSE <<>>
             seen == IF Exists(s, p) THEN s[p].size ELSE 0
             new == Overlay(old, offset, chunk)
         IN  [store |-> WithEntry(s, p, [data |-> new,
                                         size |-> IF publish THEN Len(new) ELSE seen]),
              nn |-> Len(chunk), err |-> Nil]

NoReader == [open |-> FALSE, rest |-> <<>>]

ReadStream(s, p, offset) ==
    IF offset < 0 THEN [reader |-> NoReader, err |-> InvalidOffsetError(p, offset)]
    ELSE IF ~ValidPath(p) THEN [reader |-> NoReader, err |-> InvalidPathError(p)]
    ELSE IF ~Exists(s, p) THEN [reader |-> NoReader, err |-> PathNotFoundError(p)]
    ELSE [reader |-> [open |-> TRUE,
                      rest |-> SubSeq(Visible(s[p]), offset + 1, s[p].size)],
          err |-> Nil]

NoFileInfo == [nil |-> TRUE, path |-> NoPath, size |-> 0, isDir |-> FALSE]

Stat(s, p) ==
    IF ~ValidPath(p) THEN [fi |-> NoFileInfo, err |-> InvalidPathError(p)]
    ELSE IF Exists(s, p)
        THEN [fi |-> [nil |-> FALSE, path |-> p, size |-> s[p].size, isDir |-> FALSE],
              err |-> Nil]
    ELSE IF IsDirPrefix(s, p)
        THEN [fi |-> [nil |-> FALSE, path |-> p, size |-> 0, isDir |-> TRUE], err |-> Nil]
    ELSE [fi |-> NoFileInfo, err |-> PathNotFoundError(p)]

\* the direct child of d on the way to q
ChildToward(d, q) ==
    LET from == IF d = <<Slash>> THEN 2 ELSE Len(d) + 2
        stops == {i \in from..Len(q) : q[i] = Slash}
        end == IF stops = {} THEN Len(q)
               ELSE (CHOOSE i \in stops : \A j \in stops : i <= j) - 1
    IN  SubSeq(q, 1, end)

List(s, p) ==
    IF p # <<Slash>> /\ ~ValidPath(p) THEN [keys |-> {}, err |-> InvalidPathError(p)]
    ELSE IF p # <<Slash>> /\ ~IsDirPrefix(s, p) THEN [keys |-> {}, err |-> PathNotFoundError(p)]
    ELSE [keys |-> {ChildToward(p, q) : q \in {r \in DOMAIN s : Below(p, r)}}, err |-> Nil]

Move(s, sourcePath, destPath) ==
    IF ~ValidPath(sourcePath) THEN [store |-> s, err |-> InvalidPathError(sourcePath)]
    ELSE IF ~ValidPath(destPath) THEN [store |-> s, err |-> InvalidPathError(destPath)]
    ELSE IF ~Exists(s, sourcePath) /\ ~IsDirPrefix(s, sourcePath)
        THEN [store |-> s, err |-> PathNotFoundError(sourcePath)]
    ELSE IF \/ ~Exists(s, sourcePath)
            \/ sourcePath = destPath
            \/ LeafConflict(Without(s, {sourcePath}), destPath)
        THEN [store |-> s, err |-> BackendError(destPath)]
    ELSE [store |-> WithEntry(Without(s, {sourcePath}), destPath, s[sourcePath]),
          err |-> Nil]

Delete(s, p) ==
    IF ~ValidPath(p) THEN [store |-> s, err |-> InvalidPathError(p)]
    ELSE IF ~Exists(s, p) /\ ~IsDirPrefix(s, p) THEN [store |-> s, err |-> PathNotFoundError(p)]
    ELSE [store |-> Without(s, {p} \cup {q \in DOMAIN s : Below(p, q)}), err |-> Nil]

\* One reader.Read(buf) with len(buf) = size.  eofWithData: whether the
\* backend reports end-of-stream together with the final bytes.
Read(reader, size, eofWithData) ==
    LET n == Min(size, Len(reader.rest))
        rest == SubSeq(reader.rest, n + 1, Len(reader.rest))
    IN  [n |-> n,
         bytes |-> SubSeq(reader.rest, 1, n),
         eof |-> rest = <<>> /\ (n = 0 \/ eofWithData),
         reader |-> [open |-> TRUE, rest |-> rest]]

(***************************************************************************)
(* Helpers of the suite (testsuites.go)                                    *)
(***************************************************************************)
filenameChars == <<"a">>       \* "abcdefghijklmnopqrstuvwxyz0123456789" in the suite
separatorChars == <<".">>      \* "._-" in the suite

Range(f) == {f[i] : i \in DOMAIN f}

\* Every string randomFilename(length) can return, built left to right as
\* the loop does: b is the part written so far.
RECURSIVE randomFilenameFrom(_, _, _)
randomFilenameFrom(b, length, wasSeparator) ==
    IF Len(b) = length THEN {b}
    ELSE LET i == Len(b)      \* index of the byte being written
             separator ==
                 IF ~wasSeparator /\ i < length - 1
                 THEN UNION {randomFilenameFrom(Append(b, c), length, TRUE) :
                                c \in Range(separatorChars)}
                 ELSE {}
             plain == UNION {randomFilenameFrom(Append(b, c), length, FALSE) :
                                c \in Range(filenameChars)}
         IN  separator \cup plain

randomFilename(length) == randomFilenameFrom(<<>>, length, TRUE)

\* Every string randomPath(length) can return; path is the part built so far.
RECURSIVE randomPathFrom(_, _)
randomPathFrom(path, length) ==
    IF ~(Len(path) < length) THEN {path}
    ELSE UNION {
            UNION { LET withChunk == path \o chunk
                        remaining == length - Len(withChunk)
                    IN  IF remaining = 1
                        THEN UNION {randomPathFrom(withChunk \o last, length) :
                                        last \in randomFilename(1)}
                        ELSE IF remaining > 1
                        THEN randomPathFrom(withChunk \o <<Slash>>, length)
                        ELSE randomPathFrom(withChunk, length)
                  : chunk \in randomFilename(chunkLength) }
            : chunkLength \in 1..(length - Len(path)) }

randomPath(length) == randomPathFrom(<<Slash>>, length)

\* A []byte the suite holds: either a view of the first n bytes of
\* randomBytes (alias) or an array of its own with the bytes v.
View(n) == [alias |-> TRUE, n |-> n, v |-> <<>>]
Own(v) == [alias |-> FALSE, n |-> Len(v), v |-> v]

\* the bytes of slice sl while the shared buffer holds rb
Val(rb, sl) == IF sl.alias THEN SubSeq(rb, 1, sl.n) ELSE sl.v

randomContents(length) == View(length)

\* append(sl, bytes...): in place while the capacity of sl's array lasts
\* (sl shares randomBytes' array, so the bytes land in randomBytes), in a
\* new array otherwise.
GoAppend(rb, sl, bytes) ==
    IF sl.alias /\ sl.n + Len(bytes) <= Len(rb)
    THEN [slice |-> View(sl.n + Len(bytes)),
          randomBytes |-> [i \in 1..Len(rb) |->
                              IF i > sl.n /\ i <= sl.n + Len(bytes)
                              THEN bytes[i - sl.n] ELSE rb[i]]]
    ELSE [slice |-> Own(Val(rb, sl) \o bytes), randomBytes |-> rb]

\* path.Split: dir is everything up to and including the last slash
Split(p) ==
    LET slashes == {i \in 1..Len(p) : p[i] = Slash}
        i == IF slashes = {} THEN 0
             ELSE CHOOSE k \in slashes : \A j \in slashes : j <= k
    IN  [dir |-> SubSeq(p, 1, i), file |-> SubSeq(p, i + 1, Len(p))]

RECURSIVE firstPartLoop(_)
firstPartLoop(filePath) ==
    LET trimmed == IF filePath[Len(filePath)] = Slash
                   THEN SubSeq(filePath, 1, Len(filePath) - 1)
                   ELSE filePath
        dir == Split(trimmed).dir
        file == Split(trimmed).file
    IN  IF dir = <<>> /\ file = <<>> THEN <<Slash>>
        ELSE IF dir = <<Slash>> \/ dir = <<>> THEN <<Slash>> \o file
        ELSE IF file = <<>> THEN dir
        ELSE firstPartLoop(dir)

firstPart(filePath) ==
    IF filePath = <<>> THEN <<Slash>> ELSE firstPartLoop(filePath)

\* ioutil.ReadAll(reader): Read until end-of-stream, whichever call reports it
RECURSIVE ReadAllFrom(_, _, _)
ReadAllFrom(reader, got, eofWithData) ==
    LET r == Read(reader, 1, eofWithData)
    IN  IF r.eof THEN got \o r.bytes
        ELSE ReadAllFrom(r.reader, got \o r.bytes, eofWithData)

ReadAll(reader) == ReadAllFrom(reader, <<>>, TRUE)

(***************************************************************************)
(* A caller other than the suite: any driver call, in any order            *)
(***************************************************************************)
ClientValidPaths == {<<"/", "a">>, <<"/", "a", "/", "a">>, <<"/", "a", "a", "a">>}
ClientInvalidPaths ==
    {<<>>, <<"/">>, <<"a">>, <<"/", "/", "a">>, <<"/", "a", "/">>}
ClientPaths == ClientValidPaths \cup ClientInvalidPaths
ClientContents == SeqsUpTo(Bytes, MaxLen)
ClientOffsets == (0 - 1)..MaxLen

\* the choices a backend of this kind has when a write returns
Publishes == IF consistency = "strong" THEN {TRUE} ELSE BOOLEAN

ClientPutContent ==
    /\ pc = "client"
    /\ \E p \in ClientPaths, contents \in ClientContents :
         store' = PutContent(store, p, contents).store
    /\ op' = "PutContent"
    /\ UNCHANGED <<consistency, randomBytes, pc, frame>>

ClientWriteStream ==
    /\ pc = "client"
    /\ \E p \in ClientPaths, offset \in ClientOffsets, chunk \in ClientContents,
          publish \in Publishes :
         /\ offset + Len(chunk) <= MaxLen
         /\ store' = WriteStream(store, p, offset, chunk, publish).store
    /\ op' = "WriteStream"
    /\ UNCHANGED <<consistency, randomBytes, pc, frame>>

ClientMove ==
    /\ pc = "client"
    /\ \E sourcePath \in ClientPaths, destPath \in ClientPaths :
         store' = Move(store, sourcePath, destPath).store
    /\ op' = "Move"
    /\ UNCHANGED <<consistency, randomBytes, pc, frame>>

ClientDelete ==
    /\ pc = "client"
    /\ \E p \in ClientPaths : store' = Delete(store, p).store
    /\ op' = "Delete"
    /\ UNCHANGED <<consistency, randomBytes, pc, frame>>

Client == ClientPutContent \/ ClientWriteStream \/ ClientMove \/ ClientDelete

NoFrame == [scenario |-> "none"]

InitClient ==
    /\ store = EmptyStore
    /\ consistency = "strong"
    /\ randomBytes = <<>>          \* package testsuites is not linked in
    /\ pc = "client"
    /\ op = "none"
    /\ frame = NoFrame

(***************************************************************************)
(* The suite: one scenario at a time, from an empty backend                *)
(***************************************************************************)
RandomBuffers == [1..RandLen -> Bytes]      \* what init() can leave in randomBytes
Sizes == 1..MaxChunk                        \* content and chunk sizes, scaled

InitSuite ==
    /\ store = EmptyStore
    /\ consistency = "strong"
    /\ randomBytes \in RandomBuffers
    /\ pc = "start"
    /\ op = "none"
    /\ frame = NoFrame

\* c.Assert failed: the scenario stops, its deferred calls still run
Failed(f) == [f EXCEPT !.failed = TRUE, !.ret = "done"]

\* the last deferred Delete of the returning function; its error is dropped
RunDeferred ==
    /\ pc = "return"
    /\ frame.deferred # <<>>
    /\ store' = Delete(store, frame.deferred[Len(frame.deferred)]).store
    /\ frame' = [frame EXCEPT !.deferred = SubSeq(@, 1, Len(@) - 1)]
    /\ op' = "Delete"
    /\ UNCHANGED <<consistency, randomBytes, pc>>

Return ==
    /\ pc = "return"
    /\ frame.deferred = <<>>
    /\ pc' = frame.ret
    /\ UNCHANGED <<store, consistency, randomBytes, op, frame>>

Unwind == RunDeferred \/ Return

(***************************************************************************)
(* writeReadCompare, TestTruncate, TestPutContentMultipleTimes             *)
(***************************************************************************)
\* L1076-1079: defer Delete(firstPart(filename)); PutContent; c.Assert(err, IsNil)
writeReadCompare_PutContent ==
    /\ pc = "wrc_put"
    /\ LET r == PutContent(store, frame.filename, Val(randomBytes, frame.contents))
           f == [frame EXCEPT !.deferred = Append(@, firstPart(frame.filename)),
                              !.err = r.err]
       IN  /\ store' = r.store
           /\ IF r.err = Nil
              THEN pc' = "wrc_get" /\ frame' = f
              ELSE pc' = "return" /\ frame' = Failed(f)
    /\ op' = "PutContent"
    /\ UNCHANGED <<consistency, randomBytes>>

\* L1081-1084: GetContent; c.Assert(err, IsNil); c.Assert(readContents, DeepEquals, contents)
writeReadCompare_GetContent ==
    /\ pc = "wrc_get"
    /\ LET r == GetContent(store, frame.filename)
           f == [frame EXCEPT !.readContents = r.contents, !.err = r.err]
       IN  /\ pc' = "return"
           /\ frame' = IF r.err = Nil /\ r.contents = Val(randomBytes, frame.contents)
                       THEN f ELSE Failed(f)
    /\ op' = "GetContent"
    /\ UNCHANGED <<store, consistency, randomBytes>>

\* L197-199: the first writeReadCompare, with the larger contents
TestTruncate_First ==
    /\ pc = "start"
    /\ \E filename \in randomPath(PathLen), large \in Sizes, small \in Sizes :
         /\ small < large
         /\ frame' = [scenario |-> "TestTruncate", filename |-> filename,
                      contents |-> randomContents(large), small |-> small,
                      readContents |-> <<>>, err |-> Nil, failed |-> FALSE,
                      deferred |-> <<>>, ret |-> "truncate_second"]
    /\ pc' = "wrc_put"
    /\ UNCHANGED <<store, consistency, randomBytes, op>>

\* L201-202: the second writeReadCompare, with the smaller contents
TestTruncate_Second ==
    /\ pc = "truncate_second"
    /\ frame' = [frame EXCEPT !.contents = randomContents(frame.small), !.ret = "done"]
    /\ pc' = "wrc_put"
    /\ UNCHANGED <<store, consistency, randomBytes, op>>

\* L781-786: the first PutContent
TestPutContentMultipleTimes_First ==
    /\ pc = "start"
    /\ \E filename \in randomPath(PathLen), large \in Sizes, small \in Sizes :
         /\ small < large
         /\ LET contents == randomContents(large)
                r == PutContent(store, filename, Val(randomBytes, contents))
                f == [scenario |-> "TestPutContentMultipleTimes", filename |-> filename,
                      contents |-> contents, small |-> small,
                      readContents |-> <<>>, err |-> r.err, failed |-> FALSE,
                      deferred |-> <<firstPart(filename)>>, ret |-> "done"]
            IN  /\ store' = r.store
                /\ IF r.err = Nil
                   THEN pc' = "pcmt_put2" /\ frame' = f
                   ELSE pc' = "return" /\ frame' = Failed(f)
    /\ op' = "PutContent"
    /\ UNCHANGED <<consistency, randomBytes>>

\* the slip of putting before the contents are replaced: the put carries
\* the old contents, the comparison uses the new ones
TestPutContentMultipleTimes_Second_stale ==
    /\ pc = "pcmt_put2"
    /\ LET r == PutContent(store, frame.filename, Val(randomBytes, frame.contents))
           f == [frame EXCEPT !.contents = randomContents(frame.small), !.err = r.err]
       IN  /\ store' = r.store
           /\ pc' = "pcmt_get"
           /\ frame' = f
    /\ op' = "PutContent"
    /\ UNCHANGED <<consistency, randomBytes>>

\* L788-790: upload a different, smaller file
TestPutContentMultipleTimes_Second ==
    /\ pc = "pcmt_put2"
    /\ LET contents == randomContents(frame.small)
           r == PutContent(store, frame.filename, Val(randomBytes, contents))
           f == [frame EXCEPT !.contents = contents, !.err = r.err]
       IN  /\ store' = r.store
           /\ IF r.err = Nil
              THEN pc' = "pcmt_get" /\ frame' = f
              ELSE pc' = "return" /\ frame' = Failed(f)
    /\ op' = "PutContent"
    /\ UNCHANGED <<consistency, randomBytes>>

\* L792-794: GetContent and the comparison
TestPutContentMultipleTimes_Get ==
    /\ pc = "pcmt_get"
    /\ LET r == GetContent(store, frame.filename)
           f == [frame EXCEPT !.readContents = r.contents, !.err = r.err]
       IN  /\ pc' = "return"
           /\ frame' = IF r.err = Nil /\ r.contents = Val(randomBytes, frame.contents)
                       THEN f ELSE Failed(f)
    /\ op' = "GetContent"
    /\ UNCHANGED <<store, consistency, randomBytes>>

PutGetScenarios ==
    \/ TestTruncate_First
    \/ TestTruncate_Second
    \/ writeReadCompare_PutContent
    \/ writeReadCompare_GetContent
    \/ TestPutContentMultipleTimes_First
    \/ TestPutContentMultipleTimes_Second
    \/ TestPutContentMultipleTimes_Get

(***************************************************************************)
(* TestReadStreamWithOffset                                                *)
(***************************************************************************)
\* append(append(a, b...), c...)
Append3(rb, a, b, c) ==
    LET ab == GoAppend(rb, a, Val(rb, b))
    IN  GoAppend(ab.randomBytes, ab.slice, Val(ab.randomBytes, c))

\* L284-294: three chunks put as one blob
TestReadStreamWithOffset_Put ==
    /\ pc = "start"
    /\ \E filename \in randomPath(PathLen), chunkSize \in Sizes :
         LET chunk == randomContents(chunkSize)
             blob == Append3(randomBytes, chunk, chunk, chunk)
             r == PutContent(store, filename, Val(blob.randomBytes, blob.slice))
             f == [scenario |-> "TestReadStreamWithOffset", line |-> 293,
                   filename |-> filename, chunkSize |-> chunkSize,
                   contentsChunk1 |-> chunk, contentsChunk2 |-> chunk,
                   contentsChunk3 |-> chunk,
                   reader |-> NoReader, readContents |-> <<>>, err |-> r.err,
                   n |-> 0, eof |-> FALSE,
                   failed |-> FALSE, deferred |-> <<firstPart(filename)>>, ret |-> "done"]
         IN  /\ randomBytes' = blob.randomBytes
             /\ store' = r.store
             /\ IF r.err = Nil
                THEN pc' = "rso_whole" /\ frame' = f
                ELSE pc' = "return" /\ frame' = Failed(f)
    /\ op' = "PutContent"
    /\ UNCHANGED consistency

\* ReadStream(filename, offset), ReadAll, and the comparison with expected
\* (a slice built over rb); next is where the scenario goes on
ReadAndCompare(line, offset, rb, expected, next) ==
    LET r == ReadStream(store, frame.filename, offset)
        readContents == IF r.err = Nil THEN ReadAll(r.reader) ELSE <<>>
        f == [frame EXCEPT !.line = line, !.reader = r.reader,
                           !.readContents = readContents, !.err = r.err]
    IN  /\ randomBytes' = rb
        /\ IF r.err = Nil /\ readContents = Val(rb, expected)
           THEN pc' = next /\ frame' = f
           ELSE pc' = "return" /\ frame' = Failed(f)
        /\ op' = "ReadStream"
        /\ UNCHANGED <<store, consistency>>

\* L296-303: the whole blob from offset 0
TestReadStreamWithOffset_Whole ==
    /\ pc = "rso_whole"
    /\ LET blob == Append3(randomBytes, frame.contentsChunk1, frame.contentsChunk2,
                           frame.contentsChunk3)
       IN  ReadAndCompare(296, 0, blob.randomBytes, blob.slice, "rso_second")

\* the slip of opening the second read one chunk too far
TestReadStreamWithOffset_Second_far ==
    /\ pc = "rso_second"
    /\ LET tail == GoAppend(randomBytes, frame.contentsChunk2,
                            Val(randomBytes, frame.contentsChunk3))
       IN  ReadAndCompare(305, frame.chunkSize * 2, tail.randomBytes, tail.slice, "rso_third")

\* L305-312: from the first chunk boundary on
TestReadStreamWithOffset_Second ==
    /\ pc = "rso_second"
    /\ LET tail == GoAppend(randomBytes, frame.contentsChunk2,
                            Val(randomBytes, frame.contentsChunk3))
       IN  ReadAndCompare(305, frame.chunkSize, tail.randomBytes, tail.slice, "rso_third")

\* L314-320: from the second chunk boundary on
TestReadStreamWithOffset_Third ==
    /\ pc = "rso_third"
    /\ ReadAndCompare(314, frame.chunkSize * 2, randomBytes, frame.contentsChunk3,
                      "rso_negative")

\* what L324-328 and L447-451 assert of the error of a call at offset -1
IsInvalidOffset(err, p) ==
    /\ err.type = "InvalidOffset"
    /\ err.offset = 0 - 1
    /\ err.path = p
    /\ Contains(ErrorText(err), DriverName)

\* L322-328: a negative offset
TestReadStreamWithOffset_Negative ==
    /\ pc = "rso_negative"
    /\ LET r == ReadStream(store, frame.filename, 0 - 1)
           f == [frame EXCEPT !.line = 323, !.reader = r.reader, !.err = r.err]
       IN  IF IsInvalidOffset(r.err, frame.filename) /\ r.reader = NoReader
           THEN pc' = "rso_end" /\ frame' = f
           ELSE pc' = "return" /\ frame' = Failed(f)
    /\ op' = "ReadStream"
    /\ UNCHANGED <<store, consistency, randomBytes>>

\* L330-339: at the end of the content, one Read into a chunkSize buffer
TestReadStreamWithOffset_AtEnd ==
    /\ pc = "rso_end"
    /\ \E eofWithData \in BOOLEAN :
         LET r == ReadStream(store, frame.filename, frame.chunkSize * 3)
             rd == Read(r.reader, frame.chunkSize, eofWithData)
             f == IF r.err = Nil
                  THEN [frame EXCEPT !.line = 332, !.reader = rd.reader, !.err = r.err,
                                     !.n = rd.n, !.eof = rd.eof]
                  ELSE [frame EXCEPT !.line = 332, !.reader = r.reader, !.err = r.err]
         IN  IF r.err = Nil /\ rd.eof /\ rd.n = 0
             THEN pc' = "rso_last" /\ frame' = f
             ELSE pc' = "return" /\ frame' = Failed(f)
    /\ op' = "ReadStream"
    /\ UNCHANGED <<store, consistency, randomBytes>>

\* the slip of opening the boundary read two bytes before the end
TestReadStreamWithOffset_LastByte_early ==
    /\ pc = "rso_last"
    /\ \E eofWithData \in BOOLEAN :
         LET r == ReadStream(store, frame.filename, frame.chunkSize * 3 - 2)
             rd == Read(r.reader, frame.chunkSize, eofWithData)
         IN  /\ r.err = Nil
             /\ pc' = "rso_again"
             /\ frame' = [frame EXCEPT !.line = 342, !.reader = rd.reader, !.err = r.err,
                                       !.n = rd.n, !.eof = rd.eof]
    /\ op' = "ReadStream"
    /\ UNCHANGED <<store, consistency, randomBytes>>

\* L341-353: one byte before the end, the first Read
TestReadStreamWithOffset_LastByte ==
    /\ pc = "rso_last"
    /\ \E eofWithData \in BOOLEAN :
         LET r == ReadStream(store, frame.filename, frame.chunkSize * 3 - 1)
             rd == Read(r.reader, frame.chunkSize, eofWithData)
             f == IF r.err = Nil
                  THEN [frame EXCEPT !.line = 342, !.reader = rd.reader, !.err = r.err,
                                     !.n = rd.n, !.eof = rd.eof]
                  ELSE [frame EXCEPT !.line = 342, !.reader = r.reader, !.err = r.err]
         IN  IF r.err = Nil /\ rd.n = 1
             THEN pc' = "rso_again" /\ frame' = f
             ELSE pc' = "return" /\ frame' = Failed(f)
    /\ op' = "ReadStream"
    /\ UNCHANGED <<store, consistency, randomBytes>>

\* L355-358: any more Read of that reader
TestReadStreamWithOffset_Again ==
    /\ pc = "rso_again"
    /\ \E eofWithData \in BOOLEAN :
         LET rd == Read(frame.reader, frame.chunkSize, eofWithData)
             f == [frame EXCEPT !.line = 356, !.reader = rd.reader,
                                !.n = rd.n, !.eof = rd.eof]
         IN  /\ pc' = "return"
             /\ frame' = IF rd.n = 0 /\ rd.eof THEN f ELSE Failed(f)
    /\ op' = "Read"
    /\ UNCHANGED <<store, consistency, randomBytes>>

TestReadStreamWithOffset ==
    \/ TestReadStreamWithOffset_Put
    \/ TestReadStreamWithOffset_Whole
    \/ TestReadStreamWithOffset_Second
    \/ TestReadStreamWithOffset_Third
    \/ TestReadStreamWithOffset_Negative
    \/ TestReadStreamWithOffset_AtEnd
    \/ TestReadStreamWithOffset_LastByte
    \/ TestReadStreamWithOffset_Again

(***************************************************************************)
(* testContinueStreamAppend (TestContinueStreamAppendSmall, ...Large)      *)
(***************************************************************************)
\* WriteStream(filename, offset, bytes.NewReader(chunk)) on a backend that
\* publishes at once, with c.Assert(err, IsNil) and c.Assert(nn, Equals, Len(chunk))
AppendWrite(line, offset, chunk, next) ==
    LET r == WriteStream(store, frame.filename, offset, chunk, TRUE)
        f == [frame EXCEPT !.line = line, !.nn = r.nn, !.err = r.err]
    IN  /\ store' = r.store
        /\ IF r.err = Nil /\ r.nn = Len(chunk)
           THEN pc' = next /\ frame' = f
           ELSE pc' = "return" /\ frame' = Failed(f)
        /\ op' = "WriteStream"
        /\ UNCHANGED consistency

\* Stat(filename) with c.Assert(err, IsNil), c.Assert(fi, NotNil) and
\* c.Assert(fi.Size(), Equals, size)
AppendStat(line, size, next) ==
    LET r == Stat(store, frame.filename)
        f == [frame EXCEPT !.line = line, !.fi = r.fi, !.err = r.err]
    IN  /\ IF r.err = Nil /\ ~r.fi.nil /\ r.fi.size = size
           THEN pc' = next /\ frame' = f
           ELSE pc' = "return" /\ frame' = Failed(f)
        /\ op' = "Stat"
        /\ UNCHANGED <<store, consistency, randomBytes>>

\* L374-387: the chunks, fullContents, and the first chunk written at 0
testContinueStreamAppend_Chunk1 ==
    /\ pc = "start"
    /\ \E filename \in randomPath(PathLen), chunkSize \in Sizes :
         LET chunk == randomContents(chunkSize)
             full == Append3(randomBytes, chunk, chunk, chunk)
             r == WriteStream(store, filename, 0, Val(full.randomBytes, chunk), TRUE)
             f == [scenario |-> "testContinueStreamAppend", line |-> 385,
                   filename |-> filename, chunkSize |-> chunkSize,
                   contentsChunk1 |-> chunk, contentsChunk2 |-> chunk,
                   contentsChunk3 |-> chunk, contentsChunk4 |-> chunk,
                   zeroChunk |-> Own(Zeros(chunkSize)), fullContents |-> full.slice,
                   nn |-> r.nn, err |-> r.err, fi |-> NoFileInfo, received |-> <<>>,
                   failed |-> FALSE, deferred |-> <<firstPart(filename)>>, ret |-> "done"]
         IN  /\ randomBytes' = full.randomBytes
             /\ store' = r.store
             /\ IF r.err = Nil /\ r.nn = chunkSize
                THEN pc' = "csa_stat1" /\ frame' = f
                ELSE pc' = "return" /\ frame' = Failed(f)
    /\ op' = "WriteStream"
    /\ UNCHANGED consistency

\* L389-392
testContinueStreamAppend_Stat1 ==
    /\ pc = "csa_stat1"
    /\ AppendStat(389, Len(Val(randomBytes, frame.contentsChunk1)), "csa_chunk2")

\* L394-396: the second chunk at the reported size
testContinueStreamAppend_Chunk2 ==
    /\ pc = "csa_chunk2"
    /\ AppendWrite(394, frame.fi.size, Val(randomBytes, frame.contentsChunk2), "csa_stat2")
    /\ UNCHANGED randomBytes

\* L398-401
testContinueStreamAppend_Stat2 ==
    /\ pc = "csa_stat2"
    /\ AppendStat(398, 2 * frame.chunkSize, "csa_rewrite")

\* the slip of re-writing at the reported size: an append, not a re-write
testContinueStreamAppend_Rewrite_appends ==
    /\ pc = "csa_rewrite"
    /\ AppendWrite(404, frame.fi.size, Val(randomBytes, frame.contentsChunk2), "csa_stat3")
    /\ UNCHANGED randomBytes

\* L403-406: re-writing the last chunk
testContinueStreamAppend_Rewrite ==
    /\ pc = "csa_rewrite"
    /\ AppendWrite(404, frame.fi.size - frame.chunkSize,
                   Val(randomBytes, frame.contentsChunk2), "csa_stat3")
    /\ UNCHANGED randomBytes

\* L408-411
testContinueStreamAppend_Stat3 ==
    /\ pc = "csa_stat3"
    /\ AppendStat(408, 2 * frame.chunkSize, "csa_rest")

\* L413-415: fullContents[fi.Size():] at the reported size
testContinueStreamAppend_Rest ==
    /\ pc = "csa_rest"
    /\ LET full == Val(randomBytes, frame.fullContents)
       IN  AppendWrite(413, frame.fi.size, SubSeq(full, frame.fi.size + 1, Len(full)),
                       "csa_get")
    /\ UNCHANGED randomBytes

\* GetContent(filename) with c.Assert(err, IsNil) and the comparison
\* with fullContents
AppendGet(line, next) ==
    LET r == GetContent(store, frame.filename)
        f == [frame EXCEPT !.line = line, !.received = r.contents, !.err = r.err]
    IN  /\ IF r.err = Nil /\ r.contents = Val(randomBytes, frame.fullContents)
           THEN pc' = next /\ frame' = f
           ELSE pc' = "return" /\ frame' = Failed(f)
        /\ op' = "GetContent"
        /\ UNCHANGED <<store, consistency, randomBytes>>

\* L417-419
testContinueStreamAppend_Get ==
    /\ pc = "csa_get"
    /\ AppendGet(417, "csa_past")

\* fullContents = append(fullContents, zeroChunk...), then
\* fullContents = append(fullContents, contentsChunk4...)
WithZeroAndChunk4(rb, f) ==
    LET zeroed == GoAppend(rb, f.fullContents, Val(rb, f.zeroChunk))
    IN  GoAppend(zeroed.randomBytes, zeroed.slice, Val(zeroed.randomBytes, f.contentsChunk4))

\* the slip of writing chunk 4 right behind chunk 3, leaving no gap
testContinueStreamAppend_PastEnd_nogap ==
    /\ pc = "csa_past"
    /\ LET full == WithZeroAndChunk4(randomBytes, frame)
           grown == [frame EXCEPT !.fullContents = full.slice]
           chunk4 == Val(full.randomBytes, frame.contentsChunk4)
           r == WriteStream(store, frame.filename,
                            Len(Val(full.randomBytes, full.slice)) - 2 * frame.chunkSize,
                            chunk4, TRUE)
       IN  /\ randomBytes' = full.randomBytes
           /\ store' = r.store
           /\ pc' = "csa_stat4"
           /\ frame' = [grown EXCEPT !.line = 429, !.nn = r.nn, !.err = r.err]
    /\ op' = "WriteStream"
    /\ UNCHANGED consistency

\* L426-431: chunk 4 written one chunk length past chunk 3
testContinueStreamAppend_PastEnd ==
    /\ pc = "csa_past"
    /\ LET full == WithZeroAndChunk4(randomBytes, frame)
           grown == [frame EXCEPT !.fullContents = full.slice]
           chunk4 == Val(full.randomBytes, frame.contentsChunk4)
           r == WriteStream(store, frame.filename,
                            Len(Val(full.randomBytes, full.slice)) - frame.chunkSize,
                            chunk4, TRUE)
           f == [grown EXCEPT !.line = 429, !.nn = r.nn, !.err = r.err]
       IN  /\ randomBytes' = full.randomBytes
           /\ store' = r.store
           /\ IF r.err = Nil /\ r.nn = frame.chunkSize
              THEN pc' = "csa_stat4" /\ frame' = f
              ELSE pc' = "return" /\ frame' = Failed(f)
    /\ op' = "WriteStream"
    /\ UNCHANGED consistency

\* L433-436
testContinueStreamAppend_Stat4 ==
    /\ pc = "csa_stat4"
    /\ AppendStat(433, Len(Val(randomBytes, frame.fullContents)), "csa_get2")

\* L438-443: the length, the zero chunk, chunk 4 and the whole
testContinueStreamAppend_Get2 ==
    /\ pc = "csa_get2"
    /\ AppendGet(438, "csa_negative")

\* the slip of probing with offset 0, which is a plain write
testContinueStreamAppend_Negative_zero ==
    /\ pc = "csa_negative"
    /\ LET r == WriteStream(store, frame.filename, 0,
                            Val(randomBytes, frame.zeroChunk), TRUE)
           f == [frame EXCEPT !.line = 446, !.nn = r.nn, !.err = r.err]
       IN  /\ store' = r.store
           /\ pc' = "return"
           /\ frame' = IF IsInvalidOffset(r.err, frame.filename) THEN f ELSE Failed(f)
    /\ op' = "WriteStream"
    /\ UNCHANGED <<consistency, randomBytes>>

\* L445-451: a negative offset
testContinueStreamAppend_Negative ==
    /\ pc = "csa_negative"
    /\ LET r == WriteStream(store, frame.filename, 0 - 1,
                            Val(randomBytes, frame.zeroChunk), TRUE)
           f == [frame EXCEPT !.line = 446, !.nn = r.nn, !.err = r.err]
       IN  /\ store' = r.store
           /\ pc' = "return"
           /\ frame' = IF IsInvalidOffset(r.err, frame.filename) THEN f ELSE Failed(f)
    /\ op' = "WriteStream"
    /\ UNCHANGED <<consistency, randomBytes>>

testContinueStreamAppend ==
    \/ testContinueStreamAppend_Chunk1
    \/ testContinueStreamAppend_Stat1
    \/ testContinueStreamAppend_Chunk2
    \/ testContinueStreamAppend_Stat2
    \/ testContinueStreamAppend_Rewrite
    \/ testContinueStreamAppend_Stat3
    \/ testContinueStreamAppend_Rest
    \/ testContinueStreamAppend_Get
    \/ testContinueStreamAppend_PastEnd
    \/ testContinueStreamAppend_Stat4
    \/ testContinueStreamAppend_Get2
    \/ testContinueStreamAppend_Negative

(***************************************************************************)
(* TestEventualConsistency                                                 *)
(***************************************************************************)
Iterations == 3                 \* the 1024 of L874 and L905, scaled

\* L863-865: short mode
TestEventualConsistency_Skip ==
    /\ pc = "start"
    /\ pc' = "done"
    /\ frame' = [scenario |-> "TestEventualConsistency", line |-> 864, skipped |-> TRUE]
    /\ op' = "Skip"
    /\ UNCHANGED <<store, consistency, randomBytes>>

\* L867-872
TestEventualConsistency_Begin ==
    /\ pc = "start"
    /\ \E filename \in randomPath(PathLen), chunkSize \in Sizes :
         frame' = [scenario |-> "TestEventualConsistency", line |-> 872, skipped |-> FALSE,
                   filename |-> filename, chunkSize |-> chunkSize,
                   offset |-> 0, misswrites |-> 0, i |-> 0,
                   contents |-> View(0), read |-> 0, fi |-> NoFileInfo,
                   readContents |-> <<>>, err |-> Nil,
                   failed |-> FALSE, deferred |-> <<firstPart(filename)>>, ret |-> "done"]
    /\ pc' = "ec_loop"
    /\ op' = "none"
    /\ UNCHANGED <<store, consistency, randomBytes>>

\* L874-877: the next chunk written at offset
TestEventualConsistency_Write ==
    /\ pc = "ec_loop"
    /\ frame.i < Iterations
    /\ \E publish \in Publishes :
         LET contents == randomContents(frame.chunkSize)
             r == WriteStream(store, frame.filename, frame.offset,
                              Val(randomBytes, contents), publish)
             f == [frame EXCEPT !.line = 876, !.contents = contents,
                                !.read = r.nn, !.err = r.err]
         IN  /\ store' = r.store
             /\ IF r.err = Nil
                THEN pc' = "ec_stat" /\ frame' = f
                ELSE pc' = "return" /\ frame' = Failed(f)
    /\ op' = "WriteStream"
    /\ UNCHANGED <<consistency, randomBytes>>

\* L879-880
TestEventualConsistency_Stat ==
    /\ pc = "ec_stat"
    /\ LET r == Stat(store, frame.filename)
           f == [frame EXCEPT !.line = 879, !.fi = r.fi, !.err = r.err]
       IN  IF r.err = Nil
           THEN pc' = "ec_if" /\ frame' = f
           ELSE pc' = "return" /\ frame' = Failed(f)
    /\ op' = "Stat"
    /\ UNCHANGED <<store, consistency, randomBytes>>

\* the slip of reading the file from its start
TestEventualConsistency_Read_fromstart ==
    /\ pc = "ec_if"
    /\ frame.fi.size = frame.offset + frame.chunkSize
    /\ LET r == ReadStream(store, frame.filename, 0)
           readContents == IF r.err = Nil THEN ReadAll(r.reader) ELSE <<>>
           f == [frame EXCEPT !.line = 886, !.readContents = readContents, !.err = r.err]
       IN  IF r.err = Nil /\ readContents = Val(randomBytes, frame.contents)
           THEN /\ pc' = "ec_loop"
                /\ frame' = [f EXCEPT !.offset = @ + frame.read, !.i = @ + 1]
           ELSE pc' = "return" /\ frame' = Failed(f)
    /\ op' = "ReadStream"
    /\ UNCHANGED <<store, consistency, randomBytes>>

\* L885-895: Stat has declared the chunk uploaded
TestEventualConsistency_Read ==
    /\ pc = "ec_if"
    /\ frame.fi.size = frame.offset + frame.chunkSize
    /\ LET r == ReadStream(store, frame.filename, frame.offset)
           readContents == IF r.err = Nil THEN ReadAll(r.reader) ELSE <<>>
           f == [frame EXCEPT !.line = 886, !.readContents = readContents, !.err = r.err]
       IN  IF r.err = Nil /\ readContents = Val(randomBytes, frame.contents)
           THEN /\ pc' = "ec_loop"
                /\ frame' = [f EXCEPT !.offset = @ + frame.read, !.i = @ + 1]
           ELSE pc' = "return" /\ frame' = Failed(f)
    /\ op' = "ReadStream"
    /\ UNCHANGED <<store, consistency, randomBytes>>

\* the slip of moving the offset on after a miss as well
TestEventualConsistency_Miss_advances ==
    /\ pc = "ec_if"
    /\ frame.fi.size # frame.offset + frame.chunkSize
    /\ pc' = "ec_loop"
    /\ frame' = [frame EXCEPT !.line = 897, !.misswrites = @ + 1, !.i = @ + 1,
                              !.offset = @ + frame.read]
    /\ op' = "none"
    /\ UNCHANGED <<store, consistency, randomBytes>>

\* L896-898
TestEventualConsistency_Miss ==
    /\ pc = "ec_if"
    /\ frame.fi.size # frame.offset + frame.chunkSize
    /\ pc' = "ec_loop"
    /\ frame' = [frame EXCEPT !.line = 897, !.misswrites = @ + 1, !.i = @ + 1]
    /\ op' = "none"
    /\ UNCHANGED <<store, consistency, randomBytes>>

\* L901-905: after the loop
TestEventualConsistency_End ==
    /\ pc = "ec_loop"
    /\ frame.i = Iterations
    /\ pc' = "return"
    /\ frame' = IF frame.misswrites # Iterations
                THEN [frame EXCEPT !.line = 905]
                ELSE Failed([frame EXCEPT !.line = 905])
    /\ op' = "none"
    /\ UNCHANGED <<store, consistency, randomBytes>>

TestEventualConsistency ==
    \/ TestEventualConsistency_Skip
    \/ TestEventualConsistency_Begin
    \/ TestEventualConsistency_Write
    \/ TestEventualConsistency_Stat
    \/ TestEventualConsistency_Read
    \/ TestEventualConsistency_Miss
    \/ TestEventualConsistency_End

\* the suite set up over a backend of either kind
InitEventual ==
    /\ store = EmptyStore
    /\ consistency \in {"strong", "eventual"}
    /\ randomBytes \in RandomBuffers
    /\ pc = "start"
    /\ op = "none"
    /\ frame = NoFrame

(***************************************************************************)
(* TestInvalidPaths                                                        *)
(***************************************************************************)
\* the slip of a leading slash on the third entry
invalidFiles_slash ==
    << <<>>,
       <<"/">>,
       <<"/", "a", "b", "c">>,
       <<"1", "2", "3", ".", "a", "b", "c">>,
       <<"/", "/", "b", "c", "d">>,
       <<"/", "a", "b", "c", "_", "1", "2", "3", "/">> >>

\* L136-142
invalidFiles ==
    << <<>>,
       <<"/">>,
       <<"a", "b", "c">>,
       <<"1", "2", "3", ".", "a", "b", "c">>,
       <<"/", "/", "b", "c", "d">>,
       <<"/", "a", "b", "c", "_", "1", "2", "3", "/">> >>

\* what L147-149 and L152-154 assert of an error
IsInvalidPath(err) ==
    /\ err # Nil
    /\ err.type = "InvalidPath"
    /\ Contains(ErrorText(err), DriverName)

\* L135-142
TestInvalidPaths_Begin ==
    /\ pc = "start"
    /\ \E size \in Sizes :
         frame' = [scenario |-> "TestInvalidPaths", line |-> 135,
                   contents |-> randomContents(size), i |-> 1,
                   filename |-> NoPath, err |-> Nil, received |-> <<>>,
                   failed |-> FALSE, deferred |-> <<>>, ret |-> "done"]
    /\ pc' = "ip_put"
    /\ op' = "none"
    /\ UNCHANGED <<store, consistency, randomBytes>>

\* L144-149: the put of the next filename, and the Delete deferred for it
TestInvalidPaths_Put ==
    /\ pc = "ip_put"
    /\ LET filename == invalidFiles[frame.i]
           r == PutContent(store, filename, Val(randomBytes, frame.contents))
           f == [frame EXCEPT !.line = 145, !.filename = filename, !.err = r.err,
                              !.deferred = Append(@, firstPart(filename))]
       IN  /\ store' = r.store
           /\ IF IsInvalidPath(r.err)
              THEN pc' = "ip_get" /\ frame' = f
              ELSE pc' = "return" /\ frame' = Failed(f)
    /\ op' = "PutContent"
    /\ UNCHANGED <<consistency, randomBytes>>

\* L151-155: the get of the same filename, then the next round or the end
TestInvalidPaths_Get ==
    /\ pc = "ip_get"
    /\ LET r == GetContent(store, frame.filename)
           f == [frame EXCEPT !.line = 151, !.err = r.err, !.received = r.contents]
       IN  IF IsInvalidPath(r.err)
           THEN /\ pc' = IF frame.i < Len(invalidFiles) THEN "ip_put" ELSE "return"
                /\ frame' = [f EXCEPT !.i = @ + 1]
           ELSE pc' = "return" /\ frame' = Failed(f)
    /\ op' = "GetContent"
    /\ UNCHANGED <<store, consistency, randomBytes>>

TestInvalidPaths ==
    \/ TestInvalidPaths_Begin
    \/ TestInvalidPaths_Put
    \/ TestInvalidPaths_Get

(***************************************************************************)
(* TestMove, TestMoveOverwrite, TestMoveNonexistent                        *)
(***************************************************************************)
\* what L526-528, L556-558 and L574-576 assert of an error
IsPathNotFound(err) ==
    /\ err # Nil
    /\ err.type = "PathNotFound"
    /\ Contains(ErrorText(err), DriverName)

\* the locals of a move scenario before its first call
MoveFrame(scenario, sourcePath, destPath, sourceContents, destContents, deferred) ==
    [scenario |-> scenario, line |-> 0, sourcePath |-> sourcePath, destPath |-> destPath,
     sourceContents |-> sourceContents, destContents |-> destContents,
     received |-> <<>>, err |-> Nil,
     failed |-> FALSE, deferred |-> deferred, ret |-> "done"]

\* PutContent(path, contents) with c.Assert(err, IsNil), in frame f
PutAsserted(f, line, path, contents, next) ==
    LET r == PutContent(store, path, Val(randomBytes, contents))
        g == [f EXCEPT !.line = line, !.err = r.err]
    IN  /\ store' = r.store
        /\ IF r.err = Nil
           THEN pc' = next /\ frame' = g
           ELSE pc' = "return" /\ frame' = Failed(g)
        /\ op' = "PutContent"
        /\ UNCHANGED <<consistency, randomBytes>>

\* Move(sourcePath, destPath) with c.Assert(err, IsNil)
MoveAsserted(line, sourcePath, destPath, next) ==
    LET r == Move(store, sourcePath, destPath)
        g == [frame EXCEPT !.line = line, !.err = r.err]
    IN  /\ store' = r.store
        /\ IF r.err = Nil
           THEN pc' = next /\ frame' = g
           ELSE pc' = "return" /\ frame' = Failed(g)
        /\ op' = "Move"
        /\ UNCHANGED <<consistency, randomBytes>>

\* GetContent(path) with c.Assert(err, IsNil) and the comparison with contents
GetAsserted(line, path, contents, next) ==
    LET r == GetContent(store, path)
        g == [frame EXCEPT !.line = line, !.err = r.err, !.received = r.contents]
    IN  /\ IF r.err = Nil /\ r.contents = Val(randomBytes, contents)
           THEN pc' = next /\ frame' = g
           ELSE pc' = "return" /\ frame' = Failed(g)
        /\ op' = "GetContent"
        /\ UNCHANGED <<store, consistency, randomBytes>>

\* GetContent(path) with the assertions of a PathNotFound error
GetMissing(line, path) ==
    LET r == GetContent(store, path)
        g == [frame EXCEPT !.line = line, !.err = r.err]
    IN  /\ pc' = "return"
        /\ frame' = IF IsPathNotFound(r.err) THEN g ELSE Failed(g)
        /\ op' = "GetContent"
        /\ UNCHANGED <<store, consistency, randomBytes>>

\* L508-516
TestMove_Put ==
    /\ pc = "start"
    /\ \E size \in Sizes, sourcePath \in randomPath(PathLen),
          destPath \in randomPath(PathLen) :
         PutAsserted(MoveFrame("TestMove", sourcePath, destPath,
                               randomContents(size), randomContents(size),
                               <<firstPart(sourcePath), firstPart(destPath)>>),
                     515, sourcePath, randomContents(size), "mv_move")

\* L518-519
TestMove_Move ==
    /\ pc = "mv_move"
    /\ MoveAsserted(518, frame.sourcePath, frame.destPath, "mv_dest")

\* L521-523
TestMove_GetDest ==
    /\ pc = "mv_dest"
    /\ GetAsserted(521, frame.destPath, frame.sourceContents, "mv_source")

\* L525-528
TestMove_GetSource ==
    /\ pc = "mv_source"
    /\ GetMissing(525, frame.sourcePath)

\* L534-543: the source is 32 bytes, the destination 64, scaled
TestMoveOverwrite_PutSource ==
    /\ pc = "start"
    /\ \E size \in Sizes, sourcePath \in randomPath(PathLen),
          destPath \in randomPath(PathLen) :
         PutAsserted(MoveFrame("TestMoveOverwrite", sourcePath, destPath,
                               randomContents(size), randomContents(2 * size),
                               <<firstPart(sourcePath), firstPart(destPath)>>),
                     542, sourcePath, randomContents(size), "mo_putdest")

\* L545-546
TestMoveOverwrite_PutDest ==
    /\ pc = "mo_putdest"
    /\ PutAsserted(frame, 545, frame.destPath, frame.destContents, "mo_move")

\* the slip of the two paths in the other order
TestMoveOverwrite_Move_swapped ==
    /\ pc = "mo_move"
    /\ MoveAsserted(548, frame.destPath, frame.sourcePath, "mo_dest")

\* L548-549
TestMoveOverwrite_Move ==
    /\ pc = "mo_move"
    /\ MoveAsserted(548, frame.sourcePath, frame.destPath, "mo_dest")

\* L551-553
TestMoveOverwrite_GetDest ==
    /\ pc = "mo_dest"
    /\ GetAsserted(551, frame.destPath, frame.sourceContents, "mo_source")

\* L555-558
TestMoveOverwrite_GetSource ==
    /\ pc = "mo_source"
    /\ GetMissing(555, frame.sourcePath)

\* L564-571: only the destination is put
TestMoveNonexistent_Put ==
    /\ pc = "start"
    /\ \E size \in Sizes, sourcePath \in randomPath(PathLen),
          destPath \in randomPath(PathLen) :
         PutAsserted(MoveFrame("TestMoveNonexistent", sourcePath, destPath,
                               randomContents(size), randomContents(size),
                               <<firstPart(destPath)>>),
                     570, destPath, randomContents(size), "mn_move")

\* the slip of the two paths in the other order
TestMoveNonexistent_Move_swapped ==
    /\ pc = "mn_move"
    /\ LET r == Move(store, frame.destPath, frame.sourcePath)
           g == [frame EXCEPT !.line = 573, !.err = r.err]
       IN  /\ store' = r.store
           /\ IF IsPathNotFound(r.err)
              THEN pc' = "mn_get" /\ frame' = g
              ELSE pc' = "return" /\ frame' = Failed(g)
    /\ op' = "Move"
    /\ UNCHANGED <<consistency, randomBytes>>

\* L573-576
TestMoveNonexistent_Move ==
    /\ pc = "mn_move"
    /\ LET r == Move(store, frame.sourcePath, frame.destPath)
           g == [frame EXCEPT !.line = 573, !.err = r.err]
       IN  /\ store' = r.store
           /\ IF IsPathNotFound(r.err)
              THEN pc' = "mn_get" /\ frame' = g
              ELSE pc' = "return" /\ frame' = Failed(g)
    /\ op' = "Move"
    /\ UNCHANGED <<consistency, randomBytes>>

\* L578-580
TestMoveNonexistent_Get ==
    /\ pc = "mn_get"
    /\ GetAsserted(578, frame.destPath, frame.destContents, "return")

MoveScenarios ==
    \/ TestMove_Put
    \/ TestMove_Move
    \/ TestMove_GetDest
    \/ TestMove_GetSource
    \/ TestMoveOverwrite_PutSource
    \/ TestMoveOverwrite_PutDest
    \/ TestMoveOverwrite_Move
    \/ TestMoveOverwrite_GetDest
    \/ TestMoveOverwrite_GetSource
    \/ TestMoveNonexistent_Put
    \/ TestMoveNonexistent_Move
    \/ TestMoveNonexistent_Get

(***************************************************************************)
(* TestDelete, TestDeleteFolder                                            *)
(***************************************************************************)
\* path.Clean of a path without "." and ".." elements: runs of slashes
\* become one slash, a trailing slash goes unless the path is the root
RECURSIVE Clean(_)
Clean(p) ==
    IF Len(p) <= 1 THEN p
    ELSE IF p[Len(p)] = Slash THEN Clean(SubSeq(p, 1, Len(p) - 1))
    ELSE LET head == Clean(SubSeq(p, 1, Len(p) - 1))
         IN  IF head = <<Slash>> /\ Len(p) > 2 /\ p[Len(p) - 1] = Slash
             THEN head \o <<p[Len(p)]>>
             ELSE IF p[Len(p) - 1] = Slash /\ head # <<Slash>>
             THEN head \o <<Slash, p[Len(p)]>>
             ELSE head \o <<p[Len(p)]>>

\* path.Join(dir, file), both non-empty
Join(dir, file) == Clean(dir \o <<Slash>> \o file)

\* Delete(path) with c.Assert(err, IsNil)
DeleteAsserted(line, path, next) ==
    LET r == Delete(store, path)
        g == [frame EXCEPT !.line = line, !.err = r.err]
    IN  /\ store' = r.store
        /\ IF r.err = Nil
           THEN pc' = next /\ frame' = g
           ELSE pc' = "return" /\ frame' = Failed(g)
        /\ op' = "Delete"
        /\ UNCHANGED <<consistency, randomBytes>>

\* GetContent(path) with the assertions of a PathNotFound error, then on
GetMissingThen(line, path, next) ==
    LET r == GetContent(store, path)
        g == [frame EXCEPT !.line = line, !.err = r.err]
    IN  /\ IF IsPathNotFound(r.err)
           THEN pc' = next /\ frame' = g
           ELSE pc' = "return" /\ frame' = Failed(g)
        /\ op' = "GetContent"
        /\ UNCHANGED <<store, consistency, randomBytes>>

\* GetContent(path) with c.Assert(err, IsNil) alone
GetFound(line, path, next) ==
    LET r == GetContent(store, path)
        g == [frame EXCEPT !.line = line, !.err = r.err]
    IN  /\ IF r.err = Nil
           THEN pc' = next /\ frame' = g
           ELSE pc' = "return" /\ frame' = Failed(g)
        /\ op' = "GetContent"
        /\ UNCHANGED <<store, consistency, randomBytes>>

\* the locals of a delete scenario before its first call
DeleteFrame(scenario, dirname, filename1, filename2, filename3, contents, deferred) ==
    [scenario |-> scenario, line |-> 0, dirname |-> dirname,
     filename1 |-> filename1, filename2 |-> filename2, filename3 |-> filename3,
     contents |-> contents, err |-> Nil,
     failed |-> FALSE, deferred |-> deferred, ret |-> "done"]

\* L600-606
TestDelete_Put ==
    /\ pc = "start"
    /\ \E filename \in randomPath(PathLen), size \in Sizes :
         PutAsserted(DeleteFrame("TestDelete", NoPath, filename, NoPath, NoPath,
                                 randomContents(size), <<firstPart(filename)>>),
                     605, filename, randomContents(size), "del_delete")

\* L608-609
TestDelete_Delete ==
    /\ pc = "del_delete"
    /\ DeleteAsserted(608, frame.filename1, "del_get")

\* L611-614
TestDelete_Get ==
    /\ pc = "del_get"
    /\ GetMissingThen(611, frame.filename1, "return")

\* L664-673
TestDeleteFolder_Put1 ==
    /\ pc = "start"
    /\ \E dirname \in randomPath(PathLen), filename1 \in randomPath(PathLen),
          filename2 \in randomPath(PathLen), filename3 \in randomPath(PathLen) :
         PutAsserted(DeleteFrame("TestDeleteFolder", dirname, filename1, filename2,
                                 filename3, randomContents(MaxChunk),
                                 <<firstPart(dirname)>>),
                     672, Join(dirname, filename1), randomContents(MaxChunk), "df_put2")

\* L675-676
TestDeleteFolder_Put2 ==
    /\ pc = "df_put2"
    /\ PutAsserted(frame, 675, Join(frame.dirname, frame.filename2), frame.contents,
                   "df_put3")

\* L678-679
TestDeleteFolder_Put3 ==
    /\ pc = "df_put3"
    /\ PutAsserted(frame, 678, Join(frame.dirname, frame.filename3), frame.contents,
                   "df_delete1")

\* the slip of deleting the directory where the first file is meant
TestDeleteFolder_Delete1_dir ==
    /\ pc = "df_delete1"
    /\ DeleteAsserted(681, frame.dirname, "df_get1")

\* L681-682
TestDeleteFolder_Delete1 ==
    /\ pc = "df_delete1"
    /\ DeleteAsserted(681, Join(frame.dirname, frame.filename1), "df_get1")

\* L684-687
TestDeleteFolder_Get1 ==
    /\ pc = "df_get1"
    /\ GetMissingThen(684, Join(frame.dirname, frame.filename1), "df_get2")

\* L689-690
TestDeleteFolder_Get2 ==
    /\ pc = "df_get2"
    /\ GetFound(689, Join(frame.dirname, frame.filename2), "df_get3")

\* L692-693
TestDeleteFolder_Get3 ==
    /\ pc = "df_get3"
    /\ GetFound(692, Join(frame.dirname, frame.filename3), "df_deletedir")

\* L695-696
TestDeleteFolder_DeleteDir ==
    /\ pc = "df_deletedir"
    /\ DeleteAsserted(695, frame.dirname, "df_gone1")

\* L698-701
TestDeleteFolder_Gone1 ==
    /\ pc = "df_gone1"
    /\ GetMissingThen(698, Join(frame.dirname, frame.filename1), "df_gone2")

\* L703-706
TestDeleteFolder_Gone2 ==
    /\ pc = "df_gone2"
    /\ GetMissingThen(703, Join(frame.dirname, frame.filename2), "df_gone3")

\* L708-711
TestDeleteFolder_Gone3 ==
    /\ pc = "df_gone3"
    /\ GetMissingThen(708, Join(frame.dirname, frame.filename3), "return")

DeleteScenarios ==
    \/ TestDelete_Put
    \/ TestDelete_Delete
    \/ TestDelete_Get
    \/ TestDeleteFolder_Put1
    \/ TestDeleteFolder_Put2
    \/ TestDeleteFolder_Put3
    \/ TestDeleteFolder_Delete1
    \/ TestDeleteFolder_Get1
    \/ TestDeleteFolder_Get2
    \/ TestDeleteFolder_Get3
    \/ TestDeleteFolder_DeleteDir
    \/ TestDeleteFolder_Gone1
    \/ TestDeleteFolder_Gone2
    \/ TestDeleteFolder_Gone3

(***************************************************************************)
(* TestReadNonexistent, TestReadNonexistentStream, TestDeleteNonexistent   *)
(***************************************************************************)
\* the locals of a scenario over a path that was never written
NonexistentFrame(scenario, line, filename, err) ==
    [scenario |-> scenario, line |-> line, filename |-> filename, err |-> err,
     failed |-> FALSE, deferred |-> <<>>, ret |-> "done"]

\* the frame after c.Assert of a PathNotFound error
AssertedPathNotFound(f) == IF IsPathNotFound(f.err) THEN f ELSE Failed(f)

\* L207-211
TestReadNonexistent_Get ==
    /\ pc = "start"
    /\ \E filename \in randomPath(PathLen) :
         frame' = AssertedPathNotFound(
                     NonexistentFrame("TestReadNonexistent", 208, filename,
                                      GetContent(store, filename).err))
    /\ pc' = "return"
    /\ op' = "GetContent"
    /\ UNCHANGED <<store, consistency, randomBytes>>

\* L457-462: from offset 0
TestReadNonexistentStream_First ==
    /\ pc = "start"
    /\ \E filename \in randomPath(PathLen) :
         LET f == NonexistentFrame("TestReadNonexistentStream", 459, filename,
                                   ReadStream(store, filename, 0).err)
         IN  /\ frame' = AssertedPathNotFound(f)
             /\ pc' = IF IsPathNotFound(f.err) THEN "rns_second" ELSE "return"
    /\ op' = "ReadStream"
    /\ UNCHANGED <<store, consistency, randomBytes>>

\* the slip of a negative offset in the second read
TestReadNonexistentStream_Second_negative ==
    /\ pc = "rns_second"
    /\ frame' = AssertedPathNotFound(
                   [frame EXCEPT !.line = 464,
                                 !.err = ReadStream(store, frame.filename, 0 - 1).err])
    /\ pc' = "return"
    /\ op' = "ReadStream"
    /\ UNCHANGED <<store, consistency, randomBytes>>

\* L464-467: from offset 64, scaled
TestReadNonexistentStream_Second ==
    /\ pc = "rns_second"
    /\ frame' = AssertedPathNotFound(
                   [frame EXCEPT !.line = 464,
                                 !.err = ReadStream(store, frame.filename, 2 * MaxChunk).err])
    /\ pc' = "return"
    /\ op' = "ReadStream"
    /\ UNCHANGED <<store, consistency, randomBytes>>

\* L655-659
TestDeleteNonexistent_Delete ==
    /\ pc = "start"
    /\ \E filename \in randomPath(PathLen) :
         LET r == Delete(store, filename)
         IN  /\ store' = r.store
             /\ frame' = AssertedPathNotFound(
                            NonexistentFrame("TestDeleteNonexistent", 656, filename, r.err))
    /\ pc' = "return"
    /\ op' = "Delete"
    /\ UNCHANGED <<consistency, randomBytes>>

NonexistentScenarios ==
    \/ TestReadNonexistent_Get
    \/ TestReadNonexistentStream_First
    \/ TestReadNonexistentStream_Second
    \/ TestDeleteNonexistent_Delete

(***************************************************************************)
(* TestRootExists, TestList                                                *)
(***************************************************************************)
NameBase == 1                   \* the 8 of 8+rand.Intn(8), scaled
NameSpread == 2                 \* the 8 of rand.Intn(8), scaled
Children == 2                   \* the 50 of make([]string, 50), scaled

\* the byte of a character of the path alphabet
CharCode(ch) == CASE ch = "." -> 46 [] ch = "/" -> 47 [] ch = "a" -> 97 [] OTHER -> 0

\* a < b as Go compares strings: byte by byte, a proper prefix first
RECURSIVE StringLess(_, _)
StringLess(a, b) ==
    IF b = <<>> THEN FALSE
    ELSE IF a = <<>> THEN TRUE
    ELSE IF a[1] # b[1] THEN CharCode(a[1]) < CharCode(b[1])
    ELSE StringLess(Tail(a), Tail(b))

\* sort.Strings: the strings of list in increasing order, each as often as in list
RECURSIVE SortStrings(_)
SortStrings(list) ==
    IF list = <<>> THEN <<>>
    ELSE LET least == CHOOSE i \in 1..Len(list) :
                         \A j \in 1..Len(list) : ~StringLess(list[j], list[i])
         IN  <<list[least]>> \o
             SortStrings([k \in 1..(Len(list) - 1) |->
                             IF k < least THEN list[k] ELSE list[k + 1]])

\* the orders in which a backend can return the keys of a listing
RECURSIVE Listings(_)
Listings(keys) ==
    IF keys = {} THEN {<<>>}
    ELSE UNION {{<<key>> \o rest : rest \in Listings(keys \ {key})} : key \in keys}

\* the names "/"-less randomFilename(8+rand.Intn(8)) can return
RandomNames == UNION {randomFilename(NameBase + k) : k \in 0..(NameSpread - 1)}

\* L92-96
TestRootExists_List ==
    /\ pc = "start"
    /\ LET r == List(store, <<Slash>>)
           f == [scenario |-> "TestRootExists", line |-> 92, err |-> r.err,
                 keys |-> <<>>, failed |-> FALSE, deferred |-> <<>>, ret |-> "done"]
       IN  frame' = IF r.err # Nil THEN Failed(f) ELSE f
    /\ pc' = "return"
    /\ op' = "List"
    /\ UNCHANGED <<store, consistency, randomBytes>>

\* L472-476
TestList_Begin ==
    /\ pc = "start"
    /\ \E root \in RandomNames, parent \in RandomNames :
         LET rootDirectory == <<Slash>> \o root
         IN  frame' = [scenario |-> "TestList", line |-> 476,
                       rootDirectory |-> rootDirectory,
                       parentDirectory |-> rootDirectory \o <<Slash>> \o parent,
                       childFiles |-> <<>>, keys |-> <<>>, err |-> Nil,
                       failed |-> FALSE, deferred |-> <<rootDirectory>>, ret |-> "done"]
    /\ pc' = "list_put"
    /\ op' = "none"
    /\ UNCHANGED <<store, consistency, randomBytes>>

\* L477-482: one round of the loop
TestList_Put ==
    /\ pc = "list_put"
    /\ Len(frame.childFiles) < Children
    /\ \E name \in RandomNames :
         LET childFile == frame.parentDirectory \o <<Slash>> \o name
             r == PutContent(store, childFile, Val(randomBytes, randomContents(MaxChunk)))
             f == [frame EXCEPT !.line = 480, !.err = r.err,
                                !.childFiles = Append(@, childFile)]
         IN  /\ store' = r.store
             /\ IF r.err = Nil
                THEN pc' = "list_put" /\ frame' = f
                ELSE pc' = "return" /\ frame' = Failed(f)
    /\ op' = "PutContent"
    /\ UNCHANGED <<consistency, randomBytes>>

\* List(path) with c.Assert(err, IsNil) and the comparison of the keys,
\* sorted where the scenario sorts them, with expected
ListAsserted(line, path, sorted, expected, next) ==
    \E listing \in Listings(List(store, path).keys) :
       LET r == List(store, path)
           keys == IF sorted THEN SortStrings(listing) ELSE listing
           f == [frame EXCEPT !.line = line, !.err = r.err, !.keys = keys]
       IN  /\ IF r.err = Nil /\ keys = expected
              THEN pc' = next /\ frame' = f
              ELSE pc' = "return" /\ frame' = Failed(f)
           /\ op' = "List"
           /\ UNCHANGED <<store, consistency, randomBytes>>

\* L483-487: childFiles sorted, then the root
TestList_ListRoot ==
    /\ pc = "list_put"
    /\ Len(frame.childFiles) = Children
    /\ \E listing \in Listings(List(store, <<Slash>>).keys) :
         LET r == List(store, <<Slash>>)
             f == [frame EXCEPT !.line = 485, !.err = r.err, !.keys = listing,
                                !.childFiles = SortStrings(@)]
         IN  IF r.err = Nil /\ listing = <<frame.rootDirectory>>
             THEN pc' = "list_dir" /\ frame' = f
             ELSE pc' = "return" /\ frame' = Failed(f)
    /\ op' = "List"
    /\ UNCHANGED <<store, consistency, randomBytes>>

\* the slip of listing the parent where the root directory is meant
TestList_ListDir_parent ==
    /\ pc = "list_dir"
    /\ ListAsserted(489, frame.parentDirectory, FALSE, <<frame.parentDirectory>>,
                    "list_parent")

\* L489-491
TestList_ListDir ==
    /\ pc = "list_dir"
    /\ ListAsserted(489, frame.rootDirectory, FALSE, <<frame.parentDirectory>>,
                    "list_parent")

\* L493-497
TestList_ListParent ==
    /\ pc = "list_parent"
    /\ ListAsserted(493, frame.parentDirectory, TRUE, frame.childFiles, "return")

ListScenarios ==
    \/ TestRootExists_List
    \/ TestList_Begin
    \/ TestList_Put
    \/ TestList_ListRoot
    \/ TestList_ListDir
    \/ TestList_ListParent

(***************************************************************************)
(* TestStatCall                                                            *)
(***************************************************************************)
SleepBefore == 2                \* the 10 seconds of L749, scaled
PropagationWait == 1            \* the 5 seconds of L756, scaled

\* the delays after which a backend shows the metadata of an overwrite:
\* at once, or within the wait the scenario grants
Delays == 0..PropagationWait

\* the entry PutContent leaves at p, with the time of the write; the
\* modification time of a write over existing content shows from visibleAt
\* on, the one before it until then
PutContentAt(s, p, contents, now, delay) ==
    LET r == PutContent(s, p, contents)
        before == IF Exists(s, p) THEN s[p].modTime ELSE now
    IN  IF r.err # Nil THEN r
        ELSE [store |-> [r.store EXCEPT ![p] =
                            [data |-> r.store[p].data, size |-> r.store[p].size,
                             modTime |-> now, before |-> before,
                             visibleAt |-> IF Exists(s, p) THEN now + delay ELSE now]],
              err |-> Nil]

\* Stat at the time now: the FileInfo is a snapshot, its ModTime() what the
\* backend showed when Stat was called
StatAt(s, p, now) ==
    LET r == Stat(s, p)
        modTime == IF r.err # Nil \/ r.fi.isDir THEN 0
                   ELSE IF now >= s[p].visibleAt THEN s[p].modTime
                   ELSE s[p].before
    IN  [fi |-> [nil |-> r.fi.nil, path |-> r.fi.path, size |-> r.fi.size,
                 isDir |-> r.fi.isDir, modTime |-> modTime],
         err |-> r.err]

\* Stat(path) with the assertions of a PathNotFound error and a nil FileInfo
StatMissing(f, line, path, next) ==
    LET r == StatAt(store, path, f.now)
        g == [f EXCEPT !.line = line, !.fi = r.fi, !.err = r.err]
    IN  /\ IF IsPathNotFound(r.err) /\ r.fi.nil
           THEN pc' = next /\ frame' = g
           ELSE pc' = "return" /\ frame' = Failed(g)
        /\ op' = "Stat"
        /\ UNCHANGED <<store, consistency, randomBytes>>

\* L716-727: the directory before anything is written
TestStatCall_StatDirMissing ==
    /\ pc = "start"
    /\ \E dirPath \in randomPath(PathLen), fileName \in randomFilename(PathLen) :
         StatMissing([scenario |-> "TestStatCall", line |-> 0,
                      content |-> randomContents(MaxChunk), dirPath |-> dirPath,
                      fileName |-> fileName, filePath |-> Join(dirPath, fileName),
                      fi |-> StatAt(EmptyStore, dirPath, 0).fi, err |-> Nil,
                      now |-> 0, createdTime |-> 0, modTime |-> 0, errorf |-> FALSE,
                      failed |-> FALSE, deferred |-> <<firstPart(dirPath)>>, ret |-> "done"],
                     724, dirPath, "sc_filemissing")

\* L730-734
TestStatCall_StatFileMissing ==
    /\ pc = "sc_filemissing"
    /\ StatMissing(frame, 730, frame.filePath, "sc_put")

\* PutContent(filePath, content) after sleeping for sleep, c.Assert(err, IsNil)
StatCallPut(line, sleep, next) ==
    \E delay \in Delays :
       LET now == frame.now + sleep
           r == PutContentAt(store, frame.filePath, Val(randomBytes, frame.content),
                             now, delay)
           g == [frame EXCEPT !.line = line, !.err = r.err, !.now = now]
       IN  /\ store' = r.store
           /\ IF r.err = Nil
              THEN pc' = next /\ frame' = g
              ELSE pc' = "return" /\ frame' = Failed(g)
           /\ op' = "PutContent"
           /\ UNCHANGED <<consistency, randomBytes>>

\* L736-737
TestStatCall_Put ==
    /\ pc = "sc_put"
    /\ StatCallPut(736, 0, "sc_statfile")

\* L740-746: the regular file, and its creation time
TestStatCall_StatFile ==
    /\ pc = "sc_statfile"
    /\ LET r == StatAt(store, frame.filePath, frame.now)
           g == [frame EXCEPT !.line = 740, !.fi = r.fi, !.err = r.err,
                              !.createdTime = r.fi.modTime]
       IN  IF /\ r.err = Nil /\ ~r.fi.nil
              /\ r.fi.path = frame.filePath
              /\ r.fi.size = Len(Val(randomBytes, frame.content))
              /\ r.fi.isDir = FALSE
           THEN pc' = "sc_modify" /\ frame' = g
           ELSE pc' = "return" /\ frame' = Failed(g)
    /\ op' = "Stat"
    /\ UNCHANGED <<store, consistency, randomBytes>>

\* L749-752: sleep, then modify the file
TestStatCall_Modify ==
    /\ pc = "sc_modify"
    /\ StatCallPut(751, SleepBefore, "sc_statagain")

\* L753-755
TestStatCall_StatAgain ==
    /\ pc = "sc_statagain"
    /\ LET r == StatAt(store, frame.filePath, frame.now)
           g == [frame EXCEPT !.line = 753, !.fi = r.fi, !.err = r.err]
       IN  IF r.err = Nil /\ ~r.fi.nil
           THEN pc' = "sc_compare" /\ frame' = g
           ELSE pc' = "return" /\ frame' = Failed(g)
    /\ op' = "Stat"
    /\ UNCHANGED <<store, consistency, randomBytes>>

\* L756-765: the wait, then ModTime() of the FileInfo at hand; c.Errorf
\* reports and the scenario goes on
TestStatCall_Compare ==
    /\ pc = "sc_compare"
    /\ LET modTime == frame.fi.modTime
       IN  frame' = [frame EXCEPT !.line = 762, !.now = @ + PropagationWait,
                                  !.modTime = modTime,
                                  !.errorf = ~(modTime > frame.createdTime)]
    /\ pc' = "sc_statdir"
    /\ op' = "Sleep"
    /\ UNCHANGED <<store, consistency, randomBytes>>

\* the slip of the file's path where the directory is meant
TestStatCall_StatDir_file ==
    /\ pc = "sc_statdir"
    /\ LET r == StatAt(store, frame.filePath, frame.now)
           g == [frame EXCEPT !.line = 768, !.fi = r.fi, !.err = r.err]
       IN  /\ pc' = "return"
           /\ frame' = IF /\ r.err = Nil /\ ~r.fi.nil
                          /\ r.fi.path = frame.dirPath
                          /\ r.fi.size = 0
                          /\ r.fi.isDir = TRUE
                       THEN g ELSE Failed(g)
    /\ op' = "Stat"
    /\ UNCHANGED <<store, consistency, randomBytes>>

\* L768-773: the directory
TestStatCall_StatDir ==
    /\ pc = "sc_statdir"
    /\ LET r == StatAt(store, frame.dirPath, frame.now)
           g == [frame EXCEPT !.line = 768, !.fi = r.fi, !.err = r.err]
       IN  /\ pc' = "return"
           /\ frame' = IF /\ r.err = Nil /\ ~r.fi.nil
                          /\ r.fi.path = frame.dirPath
                          /\ r.fi.size = 0
                          /\ r.fi.isDir = TRUE
                       THEN g ELSE Failed(g)
    /\ op' = "Stat"
    /\ UNCHANGED <<store, consistency, randomBytes>>

TestStatCall ==
    \/ TestStatCall_StatDirMissing
    \/ TestStatCall_StatFileMissing
    \/ TestStatCall_Put
    \/ TestStatCall_StatFile
    \/ TestStatCall_Modify
    \/ TestStatCall_StatAgain
    \/ TestStatCall_Compare
    \/ TestStatCall_StatDir

(***************************************************************************)
(* TestConcurrentStreamReads                                               *)
(***************************************************************************)
Readers == 2                    \* the 10 of wg.Add(10), scaled
FullFileSize == RandLen + MaxChunk      \* 128 MiB against the 96 MiB of randomBytes
ShortFileSize == MaxChunk               \* the 10 MiB of short mode, scaled

\* a goroutine before go starts it
Idle == [pc |-> "idle", offset |-> 0, reader |-> NoReader, readContents |-> <<>>,
         failed |-> FALSE]

\* L800-813: randomContents(filesize) slices randomBytes[:filesize], which
\* panics beyond the length of randomBytes
TestConcurrentStreamReads_Put ==
    /\ pc = "start"
    /\ \E short \in BOOLEAN, filename \in randomPath(PathLen) :
         LET filesize == IF short THEN ShortFileSize ELSE FullFileSize
             contents == randomContents(filesize)
             f == [scenario |-> "TestConcurrentStreamReads", line |-> 808,
                   short |-> short, filesize |-> filesize, filename |-> filename,
                   contents |-> contents, workers |-> [i \in 1..Readers |-> Idle],
                   err |-> Nil, panicked |-> filesize > Len(randomBytes),
                   failed |-> FALSE, deferred |-> <<>>, ret |-> "done"]
         IN  IF filesize > Len(randomBytes)
             THEN /\ pc' = "done"
                  /\ frame' = f
                  /\ store' = store
             ELSE LET r == PutContent(store, filename, Val(randomBytes, contents))
                      g == [f EXCEPT !.line = 812, !.err = r.err,
                                     !.deferred = <<firstPart(filename)>>]
                  IN  /\ store' = r.store
                      /\ IF r.err = Nil
                         THEN pc' = "csr_go" /\ frame' = g
                         ELSE pc' = "return" /\ frame' = Failed(g)
    /\ op' = "PutContent"
    /\ UNCHANGED <<consistency, randomBytes>>

\* L828-831: wg.Add(10) and the ten go statements
TestConcurrentStreamReads_Go ==
    /\ pc = "csr_go"
    /\ frame' = [frame EXCEPT !.line = 830,
                              !.workers = [i \in 1..Readers |-> [Idle EXCEPT !.pc = "open"]]]
    /\ pc' = "csr_wait"
    /\ op' = "go"
    /\ UNCHANGED <<store, consistency, randomBytes>>

\* the slip of every reader opening the file at its start
readContents_Open_start(i) ==
    /\ pc = "csr_wait"
    /\ frame.workers[i].pc = "open"
    /\ \E offset \in 0..(Len(Val(randomBytes, frame.contents)) - 1) :
         LET r == ReadStream(store, frame.filename, 0)
         IN  frame' = [frame EXCEPT !.workers[i] =
                          IF r.err = Nil
                          THEN [@ EXCEPT !.pc = "read", !.offset = offset,
                                         !.reader = r.reader]
                          ELSE [@ EXCEPT !.pc = "done", !.offset = offset, !.failed = TRUE]]
    /\ op' = "ReadStream"
    /\ UNCHANGED <<store, consistency, randomBytes, pc>>

\* L819-821 in goroutine i: a random offset and the reader from there
readContents_Open(i) ==
    /\ pc = "csr_wait"
    /\ frame.workers[i].pc = "open"
    /\ \E offset \in 0..(Len(Val(randomBytes, frame.contents)) - 1) :
         LET r == ReadStream(store, frame.filename, offset)
         IN  frame' = [frame EXCEPT !.workers[i] =
                          IF r.err = Nil
                          THEN [@ EXCEPT !.pc = "read", !.offset = offset,
                                         !.reader = r.reader]
                          ELSE [@ EXCEPT !.pc = "done", !.offset = offset, !.failed = TRUE]]
    /\ op' = "ReadStream"
    /\ UNCHANGED <<store, consistency, randomBytes, pc>>

\* L823 in goroutine i: one Read of ioutil.ReadAll
readContents_Read(i) ==
    /\ pc = "csr_wait"
    /\ frame.workers[i].pc = "read"
    /\ \E eofWithData \in BOOLEAN :
         LET rd == Read(frame.workers[i].reader, 1, eofWithData)
         IN  frame' = [frame EXCEPT !.workers[i] =
                          [@ EXCEPT !.pc = IF rd.eof THEN "compare" ELSE "read",
                                    !.reader = rd.reader,
                                    !.readContents = @ \o rd.bytes]]
    /\ op' = "Read"
    /\ UNCHANGED <<store, consistency, randomBytes, pc>>

\* L825 and the deferred wg.Done() of L818 in goroutine i
readContents_Compare(i) ==
    /\ pc = "csr_wait"
    /\ frame.workers[i].pc = "compare"
    /\ LET contents == Val(randomBytes, frame.contents)
           w == frame.workers[i]
       IN  frame' = [frame EXCEPT !.workers[i] =
                        [@ EXCEPT !.pc = "done",
                                  !.failed = w.readContents #
                                             SubSeq(contents, w.offset + 1, Len(contents))]]
    /\ op' = "wg.Done"
    /\ UNCHANGED <<store, consistency, randomBytes, pc>>

\* L832: wg.Wait() returns once every goroutine is done
TestConcurrentStreamReads_Wait ==
    /\ pc = "csr_wait"
    /\ \A i \in 1..Readers : frame.workers[i].pc = "done"
    /\ frame' = [frame EXCEPT !.line = 832,
                              !.failed = \E i \in 1..Readers : frame.workers[i].failed]
    /\ pc' = "return"
    /\ op' = "wg.Wait"
    /\ UNCHANGED <<store, consistency, randomBytes>>

readContents == \E i \in 1..Readers :
    \/ readContents_Open(i)
    \/ readContents_Read(i)
    \/ readContents_Compare(i)

TestConcurrentStreamReads ==
    \/ TestConcurrentStreamReads_Put
    \/ TestConcurrentStreamReads_Go
    \/ readContents
    \/ TestConcurrentStreamReads_Wait

(***************************************************************************)
(* TestConcurrentFileStreams and testFileStreams                           *)
(***************************************************************************)
Writers == 2                    \* the 32 of numStreams, scaled

\* L838-843: numStreams, fewer in short mode
numStreams(short) == IF short THEN Writers - 1 ELSE Writers

\* a goroutine of testStream before go starts it
NoStream == [pc |-> "idle", filename |-> NoPath, contents |-> View(0), tf |-> <<>>,
             nn |-> 0, err |-> Nil, reader |-> NoReader, readContents |-> <<>>,
             failed |-> FALSE]

\* L852-855: wg.Add(numStreams) and the go statements, each with
\* size = numStreams MiB
TestConcurrentFileStreams_Go ==
    /\ pc = "start"
    /\ \E short \in BOOLEAN :
         frame' = [scenario |-> "TestConcurrentFileStreams", line |-> 854,
                   short |-> short, size |-> numStreams(short),
                   workers |-> [i \in 1..Writers |->
                                   IF i <= numStreams(short)
                                   THEN [NoStream EXCEPT !.pc = "begin"]
                                   ELSE [NoStream EXCEPT !.pc = "absent"]],
                   failed |-> FALSE, deferred |-> <<>>, ret |-> "done"]
    /\ pc' = "cfs_wait"
    /\ op' = "go"
    /\ UNCHANGED <<store, consistency, randomBytes>>

\* L1045-1059 in goroutine i: the temporary file holds contents; the Delete
\* of firstPart(filename) is deferred
testFileStreams_Begin(i) ==
    /\ pc = "cfs_wait"
    /\ frame.workers[i].pc = "begin"
    /\ \E filename \in randomPath(PathLen) :
         LET contents == randomContents(frame.size)
         IN  frame' = [frame EXCEPT !.workers[i] =
                          [@ EXCEPT !.pc = "write", !.filename = filename,
                                    !.contents = contents,
                                    !.tf = Val(randomBytes, contents)]]
    /\ op' = "TempFile"
    /\ UNCHANGED <<store, consistency, randomBytes, pc>>

\* L1061-1063 in goroutine i; a failed c.Assert ends the goroutine through
\* its deferred calls
testFileStreams_WriteStream(i) ==
    /\ pc = "cfs_wait"
    /\ frame.workers[i].pc = "write"
    /\ LET w == frame.workers[i]
           r == WriteStream(store, w.filename, 0, w.tf, TRUE)
           ok == r.err = Nil /\ r.nn = frame.size
       IN  /\ store' = r.store
           /\ frame' = [frame EXCEPT !.workers[i] =
                           [@ EXCEPT !.pc = IF ok THEN "open" ELSE "deferred",
                                     !.nn = r.nn, !.err = r.err, !.failed = ~ok]]
    /\ op' = "WriteStream"
    /\ UNCHANGED <<consistency, randomBytes, pc>>

\* the slip of a wg.Done() that is not deferred: a failed assertion ends the
\* goroutine without it
testFileStreams_ReadStream_nodefer(i) ==
    /\ pc = "cfs_wait"
    /\ frame.workers[i].pc = "open"
    /\ LET w == frame.workers[i]
           r == ReadStream(store, w.filename, 0)
       IN  frame' = [frame EXCEPT !.workers[i] =
                        [@ EXCEPT !.pc = IF r.err = Nil THEN "readall" ELSE "stopped",
                                  !.reader = r.reader, !.err = r.err,
                                  !.failed = r.err # Nil]]
    /\ op' = "ReadStream"
    /\ UNCHANGED <<store, consistency, randomBytes, pc>>

\* L1065-1067 in goroutine i
testFileStreams_ReadStream(i) ==
    /\ pc = "cfs_wait"
    /\ frame.workers[i].pc = "open"
    /\ LET w == frame.workers[i]
           r == ReadStream(store, w.filename, 0)
       IN  frame' = [frame EXCEPT !.workers[i] =
                        [@ EXCEPT !.pc = IF r.err = Nil THEN "readall" ELSE "deferred",
                                  !.reader = r.reader, !.err = r.err,
                                  !.failed = r.err # Nil]]
    /\ op' = "ReadStream"
    /\ UNCHANGED <<store, consistency, randomBytes, pc>>

\* L1069-1072 in goroutine i
testFileStreams_ReadAll(i) ==
    /\ pc = "cfs_wait"
    /\ frame.workers[i].pc = "readall"
    /\ LET w == frame.workers[i]
           got == ReadAll(w.reader)
       IN  frame' = [frame EXCEPT !.workers[i] =
                        [@ EXCEPT !.pc = "deferred", !.readContents = got,
                                  !.failed = got # Val(randomBytes, w.contents)]]
    /\ op' = "ReadAll"
    /\ UNCHANGED <<store, consistency, randomBytes, pc>>

\* L1051 and L848 in goroutine i: the deferred Delete of the top-level
\* segment, then wg.Done()
testFileStreams_Deferred(i) ==
    /\ pc = "cfs_wait"
    /\ frame.workers[i].pc = "deferred"
    /\ store' = Delete(store, firstPart(frame.workers[i].filename)).store
    /\ frame' = [frame EXCEPT !.workers[i].pc = "done"]
    /\ op' = "Delete"
    /\ UNCHANGED <<consistency, randomBytes, pc>>

\* L857: wg.Wait() returns once every goroutine is done
TestConcurrentFileStreams_Wait ==
    /\ pc = "cfs_wait"
    /\ \A i \in 1..Writers : frame.workers[i].pc \in {"done", "absent"}
    /\ frame' = [frame EXCEPT !.line = 857,
                              !.failed = \E i \in 1..Writers : frame.workers[i].failed]
    /\ pc' = "return"
    /\ op' = "wg.Wait"
    /\ UNCHANGED <<store, consistency, randomBytes>>

testFileStreams == \E i \in 1..Writers :
    \/ testFileStreams_Begin(i)
    \/ testFileStreams_WriteStream(i)
    \/ testFileStreams_ReadStream(i)
    \/ testFileStreams_ReadAll(i)
    \/ testFileStreams_Deferred(i)

TestConcurrentFileStreams ==
    \/ TestConcurrentFileStreams_Go
    \/ testFileStreams
    \/ TestConcurrentFileStreams_Wait

(***************************************************************************)
(* TearDownTest, after every scenario                                      *)
(***************************************************************************)
\* a scenario against a driver under test that leaks: an entry it wrote is
\* still there when the scenario and its deferred Delete are over
LeakingScenario ==
    /\ pc = "start"
    /\ \E p \in ClientValidPaths, contents \in ClientContents :
         store' = PutContent(store, p, contents).store
    /\ frame' = [scenario |-> "leaking", line |-> 0, failed |-> FALSE,
                 deferred |-> <<>>, ret |-> "done"]
    /\ pc' = "done"
    /\ op' = "Delete"
    /\ UNCHANGED <<consistency, randomBytes>>

\* L84-88: the error of List is dropped; c.Fatalf in the fixture ends the run.
\* A List that fails returns no keys.
TearDownTest ==
    /\ pc = "done"
    /\ \E listFails \in BOOLEAN :
         LET r == IF listFails THEN [keys |-> {}, err |-> BackendError(<<Slash>>)]
                  ELSE List(store, <<Slash>>)
             files == r.keys
             fatal == Cardinality(files) > 0
         IN  /\ frame' = [scenario |-> "TearDownTest", line |-> 85, files |-> files,
                          err |-> r.err, fatal |-> fatal, left |-> DOMAIN store]
             /\ pc' = IF fatal THEN "aborted" ELSE "torn"
    /\ op' = "List"
    /\ UNCHANGED <<store, consistency, randomBytes>>

\* the runner goes on to the next scenario after a fixture that passed
NextScenario ==
    /\ pc = "torn"
    /\ pc' = "start"
    /\ frame' = NoFrame
    /\ op' = "none"
    /\ UNCHANGED <<store, consistency, randomBytes>>

(***************************************************************************)
(* The suite's lifecycle: SetUpSuite, the scenarios, TearDownSuite         *)
(***************************************************************************)
Scenarios == 2                  \* how many scenarios of the suite the runner has

SkipReasons == {"", "skipped"}  \* NeverSkip returns the first

\* L64-66: c.Skip(reason) ends SetUpSuite there
SetUpSuite_SkipCheck ==
    /\ pc = "registered"
    /\ \E reason \in SkipReasons :
         /\ frame' = [frame EXCEPT !.reason = reason, !.log = Append(@, "SkipCheck")]
         /\ pc' = IF reason # "" THEN "teardownsuite" ELSE "constructor"
    /\ op' = "SkipCheck"
    /\ UNCHANGED <<store, consistency, randomBytes>>

\* L67-69: a failed c.Assert ends SetUpSuite, and the runner runs no scenario
SetUpSuite_Constructor ==
    /\ pc = "constructor"
    /\ \E err \in BOOLEAN :
         /\ frame' = [frame EXCEPT !.err = err, !.StorageDriver = ~err,
                                   !.log = Append(@, "Constructor")]
         /\ pc' = IF err THEN "teardownsuite" ELSE "scenarios"
    /\ op' = "Constructor"
    /\ UNCHANGED <<store, consistency, randomBytes>>

\* one scenario of the suite: calls on suite.StorageDriver
Scenario ==
    /\ pc = "scenarios"
    /\ Len(SelectSeq(frame.log, LAMBDA e : e = "Scenario")) < Scenarios
    /\ \E p \in ClientValidPaths, contents \in ClientContents :
         \/ store' = PutContent(store, p, contents).store
         \/ store' = Delete(store, p).store
    /\ frame' = [frame EXCEPT !.log = Append(@, "Scenario")]
    /\ op' = "Scenario"
    /\ UNCHANGED <<consistency, randomBytes, pc>>

\* the runner is through with the scenarios
ScenariosOver ==
    /\ pc = "scenarios"
    /\ pc' = "teardownsuite"
    /\ op' = "none"
    /\ UNCHANGED <<store, consistency, randomBytes, frame>>

\* L73-78; the runner of gopkg.in/check.v1 runs TearDownSuite once, after
\* SetUpSuite and the scenarios, whatever the outcome of SetUpSuite
TearDownSuite ==
    /\ pc = "teardownsuite"
    /\ frame' = IF frame.Teardown
                THEN [frame EXCEPT !.log = Append(@, "Teardown")]
                ELSE frame
    /\ pc' = "finished"
    /\ op' = "TearDownSuite"
    /\ UNCHANGED <<store, consistency, randomBytes>>

Lifecycle ==
    \/ SetUpSuite_SkipCheck
    \/ SetUpSuite_Constructor
    \/ Scenario
    \/ ScenariosOver
    \/ TearDownSuite

(***************************************************************************)
(* randReader                                                              *)
(***************************************************************************)
StreamLen == 3                  \* the n of newRandReader(n), scaled
Reads == 4                      \* how many Read calls a consumer makes

\* L1172-1174
newRandReader(n) == [r |-> n]

\* L1157-1170: copy fills p whole from randomContents(len(p)), whatever is
\* left of rr.r
randReaderRead(rr, lenp) ==
    LET source == Val(randomBytes, randomContents(lenp))
        n == IF lenp < Len(source) THEN lenp ELSE Len(source)
        r == rr.r - n
    IN  [rr |-> [r |-> r], n |-> n, p |-> SubSeq(source, 1, n), eof |-> r <= 0]

\* a consumer's next Read, with a buffer of its choice
randReader_Read ==
    /\ pc = "reading"
    /\ frame.calls < Reads
    /\ \E lenp \in 0..MaxChunk :
         LET got == randReaderRead(frame.contents, lenp)
         IN  frame' = [frame EXCEPT !.contents = got.rr,
                                    !.calls = @ + 1,
                                    !.delivered = @ + got.n,
                                    !.afterEOF = @ + (IF frame.eof THEN got.n ELSE 0),
                                    !.atEOF = IF frame.eof THEN @
                                              ELSE frame.delivered + got.n,
                                    !.eof = @ \/ got.eof]
    /\ op' = "Read"
    /\ UNCHANGED <<store, consistency, randomBytes, pc>>

(***************************************************************************)
(* The lengths asked of randomContents, in bytes                           *)
(***************************************************************************)
KiB == 1024
MiB == KiB * KiB
GiB == KiB * MiB

\* L1140: make([]byte, 96<<20)
randomBytesLen == 96 * MiB

\* every call of randomContents in the file, by line, with the length it
\* passes; a scenario that skips itself in short mode makes no call then
CallSites(short) ==
    {[line |-> l, length |-> 64] : l \in {102, 135, 537}}
    \cup {[line |-> l, length |-> 32] :
             l \in {175, 233, 289, 290, 291, 480, 508, 536, 564, 585, 601, 621, 668}}
    \cup {[line |-> l, length |-> MiB] : l \in {182, 198, 241}}
    \cup {[line |-> 201, length |-> KiB]}
    \cup {[line |-> l, length |-> chunkSize] :
             l \in {377, 378, 379, 380}, chunkSize \in {10 * MiB, 32}}  \* L364, L370
    \cup {[line |-> l, length |-> 4096] : l \in {716, 750, 782}}
    \cup {[line |-> 788, length |-> 2048]}
    \cup {[line |-> 808, length |-> IF short THEN 10 * MiB ELSE 128 * MiB]}  \* L800-805
    \cup (IF short THEN {} ELSE {[line |-> 875, length |-> 32]})            \* L863-865
    \cup {[line |-> l, length |-> size] :
             l \in {938, 976}, size \in {0, KiB, MiB, GiB}}      \* L909-926, L947-964
    \cup {[line |-> 1053, length |-> (IF short THEN 8 ELSE 32) * MiB]}     \* L838-854
    \cup (IF short THEN {}                                                  \* L256-258
          ELSE {[line |-> 1162, length |-> lenp] : lenp \in {0, 1, 512, 32 * KiB}})

\* L1149-1151 on the suite's own buffer: randomBytes[:length] panics when
\* length is beyond the length of randomBytes
randomContents_Call ==
    /\ pc = "sizes"
    /\ \E site \in CallSites(frame.short) :
         LET inRange == 0 <= site.length /\ site.length <= randomBytesLen
         IN  frame' = [frame EXCEPT !.line = site.line, !.length = site.length,
                                    !.panicked = ~inRange,
                                    !.returned = IF inRange THEN site.length ELSE 0]
    /\ op' = "randomContents"
    /\ UNCHANGED <<store, consistency, randomBytes, pc>>

(***************************************************************************)
(* benchmarkListFiles                                                      *)
(***************************************************************************)
ParentLen == 2                  \* the 8 of randomPath(8), scaled
ListFiles == 2                  \* the 5 of BenchmarkList5Files, scaled

\* L997-1001: parentDir and the deferred Delete of its top-level segment
benchmarkListFiles_Begin ==
    /\ pc = "start"
    /\ \E parentDir \in randomPath(ParentLen) :
         frame' = [scenario |-> "benchmarkListFiles", line |-> 997,
                   numFiles |-> ListFiles, parentDir |-> parentDir, i |-> 0,
                   files |-> {}, err |-> Nil,
                   failed |-> FALSE, deferred |-> <<firstPart(parentDir)>>, ret |-> "done"]
    /\ pc' = "bl_put"
    /\ op' = "none"
    /\ UNCHANGED <<store, consistency, randomBytes>>

\* L1003-1006: one round of the loop, PutContent of nil at a fresh random path
benchmarkListFiles_Put ==
    /\ pc = "bl_put"
    /\ frame.i < frame.numFiles
    /\ \E p \in randomPath(PathLen) :
         PutAsserted([frame EXCEPT !.i = @ + 1], 1004, Join(frame.parentDir, p),
                     Own(<<>>), "bl_put")

\* L1009-1013: one iteration of the timed loop
benchmarkListFiles_List ==
    /\ pc = "bl_put"
    /\ frame.i = frame.numFiles
    /\ LET r == List(store, frame.parentDir)
           f == [frame EXCEPT !.line = 1010, !.err = r.err, !.files = r.keys]
       IN  /\ frame' = IF r.err = Nil /\ Cardinality(r.keys) = frame.numFiles
                       THEN f ELSE Failed(f)
           /\ pc' = "return"
    /\ op' = "List"
    /\ UNCHANGED <<store, consistency, randomBytes>>

benchmarkListFiles ==
    \/ benchmarkListFiles_Begin
    \/ benchmarkListFiles_Put
    \/ benchmarkListFiles_List

(***************************************************************************)
(* TestMoveInvalid                                                         *)
(***************************************************************************)
notadir == <<"/", "n", "o", "t", "a", "d", "i", "r">>

\* what PutContent of a driver under test can do: the contract's PutContent,
\* or an error returned although the entry was written
PutOutcomes(s, p, contents) ==
    LET r == PutContent(s, p, contents)
    IN  {r} \cup (IF r.err = Nil THEN {[store |-> r.store, err |-> BackendError(p)]}
                  ELSE {})

\* L585-588: PutContent of /notadir
TestMoveInvalid_Put ==
    /\ pc = "start"
    /\ \E r \in PutOutcomes(store, notadir, Val(randomBytes, randomContents(MaxChunk))) :
         /\ store' = r.store
         /\ frame' = [scenario |-> "TestMoveInvalid", line |-> 588,
                      contents |-> randomContents(MaxChunk), err |-> r.err,
                      failed |-> FALSE, deferred |-> <<>>, ret |-> "done"]
    /\ pc' = "mi_assert"
    /\ op' = "PutContent"
    /\ UNCHANGED <<consistency, randomBytes>>

\* L589-590: c.Assert(err, IsNil), and only then the defer
TestMoveInvalid_Assert ==
    /\ pc = "mi_assert"
    /\ IF frame.err = Nil
       THEN /\ frame' = [frame EXCEPT !.line = 590, !.deferred = <<notadir>>]
            /\ pc' = "mi_move"
       ELSE /\ frame' = Failed([frame EXCEPT !.line = 589])
            /\ pc' = "return"
    /\ op' = "Assert"
    /\ UNCHANGED <<store, consistency, randomBytes>>

\* L593-594: the move of a file that is not there, below the regular file
TestMoveInvalid_Move ==
    /\ pc = "mi_move"
    /\ LET r == Move(store, notadir \o <<"/", "f", "o", "o">>,
                            notadir \o <<"/", "b", "a", "r">>)
           f == [frame EXCEPT !.line = 593, !.err = r.err]
       IN  /\ store' = r.store
           /\ frame' = IF r.err # Nil THEN f ELSE Failed(f)
    /\ pc' = "return"
    /\ op' = "Move"
    /\ UNCHANGED <<consistency, randomBytes>>

TestMoveInvalid ==
    \/ TestMoveInvalid_Put
    \/ TestMoveInvalid_Assert
    \/ TestMoveInvalid_Move

(***************************************************************************)
(* randomPath and randomFilename, call by call                             *)
(***************************************************************************)
GenLen == 6         \* longest path and filename asked of the generators

\* L1107-1108: path := "/"
randomPath_Begin ==
    /\ pc = "start"
    /\ \E length \in 2..GenLen :
         frame' = [scenario |-> "randomPath", line |-> 1108, length |-> length,
                   path |-> <<Slash>>, rounds |-> 0]
    /\ pc' = "rp_loop"
    /\ op' = "none"
    /\ UNCHANGED <<store, consistency, randomBytes>>

\* the slip of closing the chunk with a slash whenever something remains
randomPath_Chunk_slash ==
    /\ pc = "rp_loop"
    /\ Len(frame.path) < frame.length
    /\ \E chunkLength \in 1..(frame.length - Len(frame.path)) :
         \E chunk \in randomFilename(chunkLength) :
            LET withChunk == frame.path \o chunk
                remaining == frame.length - Len(withChunk)
            IN  frame' = [frame EXCEPT !.line = 1110, !.rounds = @ + 1,
                             !.path = IF remaining >= 1
                                      THEN withChunk \o <<Slash>>
                                      ELSE withChunk]
    /\ UNCHANGED <<store, consistency, randomBytes, pc, op>>

\* L1109-1118: one round of the loop
randomPath_Chunk ==
    /\ pc = "rp_loop"
    /\ Len(frame.path) < frame.length
    /\ \E chunkLength \in 1..(frame.length - Len(frame.path)) :
         \E chunk \in randomFilename(chunkLength), last \in randomFilename(1) :
            LET withChunk == frame.path \o chunk
                remaining == frame.length - Len(withChunk)
            IN  frame' = [frame EXCEPT !.line = 1110, !.rounds = @ + 1,
                             !.path = IF remaining = 1 THEN withChunk \o last
                                      ELSE IF remaining > 1
                                      THEN withChunk \o <<Slash>>
                                      ELSE withChunk]
    /\ UNCHANGED <<store, consistency, randomBytes, pc, op>>

\* L1109 and L1120: the loop is left and path returned
randomPath_Return ==
    /\ pc = "rp_loop"
    /\ ~(Len(frame.path) < frame.length)
    /\ frame' = [frame EXCEPT !.line = 1120]
    /\ pc' = "done"
    /\ UNCHANGED <<store, consistency, randomBytes, op>>

\* L1123-1136: one call of randomFilename
randomFilename_Call ==
    /\ pc = "start"
    /\ \E length \in 0..GenLen :
         \E b \in randomFilename(length) :
            frame' = [scenario |-> "randomFilename", line |-> 1135,
                      length |-> length, b |-> b]
    /\ pc' = "done"
    /\ op' = "none"
    /\ UNCHANGED <<store, consistency, randomBytes>>

(***************************************************************************)
(* firstPart, round by round                                               *)
(***************************************************************************)
FirstLen == 6       \* longest path handed to firstPart

\* the valid paths of up to FirstLen characters
PathsUpTo == {p \in SeqsUpTo({Slash} \cup Range(filenameChars) \cup Range(separatorChars),
                             FirstLen) : ValidPath(p)}

\* L1176-1179
firstPart_Begin ==
    /\ pc = "start"
    /\ \E p \in PathsUpTo :
         /\ frame' = [scenario |-> "firstPart", line |-> 1177, p |-> p,
                      filePath |-> p, result |-> NoPath, rounds |-> 0]
         /\ pc' = IF p = <<>> THEN "done" ELSE "fp_loop"
    /\ op' = "none"
    /\ UNCHANGED <<store, consistency, randomBytes>>

\* the slip of leaving the trailing slash on
firstPart_Round_untrimmed ==
    /\ pc = "fp_loop"
    /\ LET dir == Split(frame.filePath).dir
           file == Split(frame.filePath).file
           f == [frame EXCEPT !.line = 1185, !.rounds = @ + 1]
       IN  IF dir = <<>> /\ file = <<>>
           THEN pc' = "done" /\ frame' = [f EXCEPT !.result = <<Slash>>]
           ELSE IF dir = <<Slash>> \/ dir = <<>>
           THEN pc' = "done" /\ frame' = [f EXCEPT !.result = <<Slash>> \o file]
           ELSE IF file = <<>>
           THEN pc' = "done" /\ frame' = [f EXCEPT !.result = dir]
           ELSE pc' = "fp_loop" /\ frame' = [f EXCEPT !.filePath = dir]
    /\ UNCHANGED <<store, consistency, randomBytes, op>>

\* L1180-1195: one round of the loop
firstPart_Round ==
    /\ pc = "fp_loop"
    /\ LET trimmed == IF frame.filePath[Len(frame.filePath)] = Slash
                      THEN SubSeq(frame.filePath, 1, Len(frame.filePath) - 1)
                      ELSE frame.filePath
           dir == Split(trimmed).dir
           file == Split(trimmed).file
           f == [frame EXCEPT !.line = 1185, !.rounds = @ + 1]
       IN  IF dir = <<>> /\ file = <<>>
           THEN pc' = "done" /\ frame' = [f EXCEPT !.result = <<Slash>>]
           ELSE IF dir = <<Slash>> \/ dir = <<>>
           THEN pc' = "done" /\ frame' = [f EXCEPT !.result = <<Slash>> \o file]
           ELSE IF file = <<>>
           THEN pc' = "done" /\ frame' = [f EXCEPT !.result = dir]
           ELSE pc' = "fp_loop" /\ frame' = [f EXCEPT !.filePath = dir]
    /\ UNCHANGED <<store, consistency, randomBytes, op>>

(***************************************************************************)
(* TestValidPaths                                                          *)
(***************************************************************************)
\* the slip of a trailing slash on the last entry
validFiles_trailing ==
    << <<"/", "a">>,
       <<"/", "2">>,
       <<"/", "a", "a">>,
       <<"/", "a", ".", "a">>,
       <<"/", "0", "-", "9", "/", "a", "b", "c", "d", "e", "f", "g">>,
       <<"/", "a", "b", "c", "d", "e", "f", "g", "/", "z", ".", "7", "5">>,
       <<"/", "a", "b", "c", "/", "1", ".", "2", ".", "3", ".", "4", ".", "5", "-", "6", "_", "z", "y", "x", "/", "1", "2", "3", ".", "z", "/", "4">>,
       <<"/", "d", "o", "c", "k", "e", "r", "/", "d", "o", "c", "k", "e", "r", "-", "r", "e", "g", "i", "s", "t", "r", "y">>,
       <<"/", "1", "2", "3", ".", "a", "b", "c">>,
       <<"/", "a", "b", "c", ".", "/", "a", "b", "c">>,
       <<"/", ".", "a", "b", "c">>,
       <<"/", "a", "-", "-", "b">>,
       <<"/", "a", "-", ".", "b">>,
       <<"/", "_", ".", "a", "b", "c">>,
       <<"/", "D", "o", "c", "k", "e", "r", "/", "d", "o", "c", "k", "e", "r", "-", "r", "e", "g", "i", "s", "t", "r", "y">>,
       <<"/", "A", "b", "c", "/", "C", "b", "a", "/">> >>

\* L103-119
validFiles ==
    << <<"/", "a">>,
       <<"/", "2">>,
       <<"/", "a", "a">>,
       <<"/", "a", ".", "a">>,
       <<"/", "0", "-", "9", "/", "a", "b", "c", "d", "e", "f", "g">>,
       <<"/", "a", "b", "c", "d", "e", "f", "g", "/", "z", ".", "7", "5">>,
       <<"/", "a", "b", "c", "/", "1", ".", "2", ".", "3", ".", "4", ".", "5", "-", "6", "_", "z", "y", "x", "/", "1", "2", "3", ".", "z", "/", "4">>,
       <<"/", "d", "o", "c", "k", "e", "r", "/", "d", "o", "c", "k", "e", "r", "-", "r", "e", "g", "i", "s", "t", "r", "y">>,
       <<"/", "1", "2", "3", ".", "a", "b", "c">>,
       <<"/", "a", "b", "c", ".", "/", "a", "b", "c">>,
       <<"/", ".", "a", "b", "c">>,
       <<"/", "a", "-", "-", "b">>,
       <<"/", "a", "-", ".", "b">>,
       <<"/", "_", ".", "a", "b", "c">>,
       <<"/", "D", "o", "c", "k", "e", "r", "/", "d", "o", "c", "k", "e", "r", "-", "r", "e", "g", "i", "s", "t", "r", "y">>,
       <<"/", "A", "b", "c", "/", "C", "b", "a">> >>

\* L102-119
TestValidPaths_Begin ==
    /\ pc = "start"
    /\ \E size \in Sizes :
         frame' = [scenario |-> "TestValidPaths", line |-> 102,
                   contents |-> randomContents(size), i |-> 1,
                   filename |-> NoPath, err |-> Nil, received |-> <<>>,
                   failed |-> FALSE, deferred |-> <<>>, ret |-> "done"]
    /\ pc' = "vp_put"
    /\ op' = "none"
    /\ UNCHANGED <<store, consistency, randomBytes>>

\* L121-124: the put of the next filename, and the Delete deferred for it
TestValidPaths_Put ==
    /\ pc = "vp_put"
    /\ LET filename == validFiles[frame.i]
           r == PutContent(store, filename, Val(randomBytes, frame.contents))
           f == [frame EXCEPT !.line = 122, !.filename = filename, !.err = r.err,
                              !.deferred = Append(@, firstPart(filename))]
       IN  /\ store' = r.store
           /\ IF r.err = Nil
              THEN pc' = "vp_get" /\ frame' = f
              ELSE pc' = "return" /\ frame' = Failed(f)
    /\ op' = "PutContent"
    /\ UNCHANGED <<consistency, randomBytes>>

\* L126-129: the get of the same filename, then the next round or the end
TestValidPaths_Get ==
    /\ pc = "vp_get"
    /\ LET r == GetContent(store, frame.filename)
           f == [frame EXCEPT !.line = 126, !.err = r.err, !.received = r.contents]
       IN  IF r.err = Nil /\ r.contents = Val(randomBytes, frame.contents)
           THEN /\ pc' = IF frame.i < Len(validFiles) THEN "vp_put" ELSE "return"
                /\ frame' = [f EXCEPT !.i = @ + 1]
           ELSE pc' = "return" /\ frame' = Failed(f)
    /\ op' = "GetContent"
    /\ UNCHANGED <<store, consistency, randomBytes>>

TestValidPaths ==
    \/ TestValidPaths_Begin
    \/ TestValidPaths_Put
    \/ TestValidPaths_Get

Init == InitClient \/ InitSuite
Next == Client
Spec == Init /\ [][Next]_vars

NextPutGet == Client \/ PutGetScenarios \/ Unwind
SpecPutGet == Init /\ [][NextPutGet]_vars

NextStream == Client \/ TestReadStreamWithOffset \/ testContinueStreamAppend \/ Unwind
SpecStream == Init /\ [][NextStream]_vars

(***************************************************************************)
(* C1: PutContent(P, C) followed by GetContent(P) returns exactly C, in    *)
(* every reachable store, whatever P held before: for a caller's every     *)
(* valid P and C, and where writeReadCompare and                           *)
(* TestPutContentMultipleTimes read back what they have put.               *)
(***************************************************************************)
PutThenGet(s, p, contents) ==
    LET put == PutContent(s, p, contents)
    IN  put.err = Nil => GetContent(put.store, p) = [contents |-> contents, err |-> Nil]

ReadBack ==
    op = "GetContent" /\ pc = "return" /\ frame.scenario \in {"TestTruncate", "TestPutContentMultipleTimes"}

C1_PutGetRoundTrip ==
    /\ pc = "client" =>
         \A p \in ClientValidPaths, contents \in ClientContents : PutThenGet(store, p, contents)
    /\ ReadBack =>
         /\ frame.err = Nil
         /\ frame.readContents = Val(randomBytes, frame.contents)
         /\ store[frame.filename].data = Val(randomBytes, frame.contents)

\* the read-back of the smaller contents put over the larger ones
C1_Witness ==
    /\ ReadBack
    /\ frame.scenario = "TestPutContentMultipleTimes"
    /\ Len(frame.readContents) = frame.small
    /\ frame.small < MaxChunk

NextEventual == Client \/ TestEventualConsistency \/ Unwind
SpecEventual == (InitClient \/ InitEventual) /\ [][NextEventual]_vars

NextInvalid == Client \/ TestInvalidPaths \/ Unwind
SpecInvalid == Init /\ [][NextInvalid]_vars

NextMove == Client \/ MoveScenarios \/ Unwind
SpecMove == Init /\ [][NextMove]_vars

\* the buffers of init() told apart by the bytes randomContents(MaxChunk)
\* hands out; the bytes behind them, which these scenarios never read, are 0
UsedBuffers == {rb \in RandomBuffers : \A i \in (MaxChunk + 1)..RandLen : rb[i] = 0}

InitSuiteUsed ==
    /\ store = EmptyStore
    /\ consistency = "strong"
    /\ randomBytes \in UsedBuffers
    /\ pc = "start"
    /\ op = "none"
    /\ frame = NoFrame

NextDelete == Client \/ DeleteScenarios \/ Unwind
SpecDelete == (InitClient \/ InitSuiteUsed) /\ [][NextDelete]_vars

NextNonexistent == Client \/ NonexistentScenarios \/ Return
SpecNonexistent == (InitClient \/ InitSuiteUsed) /\ [][NextNonexistent]_vars

NextList == Client \/ ListScenarios \/ Unwind
SpecList == (InitClient \/ InitSuiteUsed) /\ [][NextList]_vars

NextStat == Client \/ TestStatCall \/ Unwind
SpecStat == (InitClient \/ InitSuiteUsed) /\ [][NextStat]_vars

NextReads == Client \/ TestConcurrentStreamReads \/ Unwind
SpecReads == (InitClient \/ InitSuiteUsed) /\ [][NextReads]_vars

NextWriters == Client \/ TestConcurrentFileStreams \/ Return
SpecWriters == (InitClient \/ InitSuiteUsed) /\ [][NextWriters]_vars

NextTearDown == TestRootExists_List \/ LeakingScenario \/ Return \/ TearDownTest \/ NextScenario
SpecTearDown == InitSuiteUsed /\ [][NextTearDown]_vars

\* L28-34 and L54-60: RegisterSuite leaves Teardown nil; a DriverSuite built
\* by hand may set it
InitLifecycle ==
    /\ store = EmptyStore
    /\ consistency = "strong"
    /\ randomBytes \in UsedBuffers
    /\ pc = "registered"
    /\ op = "none"
    /\ \E teardown \in BOOLEAN :
         frame = [scenario |-> "suite", Teardown |-> teardown, reason |-> "",
                  StorageDriver |-> FALSE, err |-> FALSE, log |-> <<>>]

NextLifecycle == Lifecycle
SpecLifecycle == InitLifecycle /\ [][NextLifecycle]_vars

\* L262: contents := newRandReader(fileSize)
InitReader ==
    /\ store = EmptyStore
    /\ consistency = "strong"
    /\ randomBytes \in UsedBuffers
    /\ pc = "reading"
    /\ op = "none"
    /\ \E n \in 0..StreamLen :
         frame = [scenario |-> "randReader", n |-> n, contents |-> newRandReader(n),
                  calls |-> 0, delivered |-> 0, eof |-> FALSE, atEOF |-> 0,
                  afterEOF |-> 0]

NextReader == randReader_Read
SpecReader == InitReader /\ [][NextReader]_vars

\* a run of the suite, in short mode or not
InitSizes ==
    /\ store = EmptyStore
    /\ consistency = "strong"
    /\ randomBytes \in UsedBuffers
    /\ pc = "sizes"
    /\ op = "none"
    /\ \E short \in BOOLEAN :
         frame = [scenario |-> "randomContents", short |-> short, line |-> 0,
                  length |-> 0, panicked |-> FALSE, returned |-> 0]

NextSizes == randomContents_Call
SpecSizes == InitSizes /\ [][NextSizes]_vars

NextListFiles == Client \/ benchmarkListFiles \/ Unwind
SpecListFiles == (InitClient \/ InitSuiteUsed) /\ [][NextListFiles]_vars

NextMoveInvalid == Client \/ TestMoveInvalid \/ Unwind
SpecMoveInvalid == (InitClient \/ InitSuiteUsed) /\ [][NextMoveInvalid]_vars

\* both concurrency scenarios, every goroutine that can run getting its turn
NextBarrier == TestConcurrentStreamReads \/ TestConcurrentFileStreams \/ Unwind
SpecBarrier == InitSuiteUsed /\ [][NextBarrier]_vars /\ WF_vars(NextBarrier)

\* the generators by themselves, each call running on until it returns
NextGenerator ==
    \/ randomPath_Begin
    \/ randomPath_Chunk
    \/ randomPath_Return
    \/ randomFilename_Call
SpecGenerator == InitSuiteUsed /\ [][NextGenerator]_vars /\ WF_vars(NextGenerator)

\* firstPart by itself on the valid paths, each call running on until it returns
NextFirstPart == firstPart_Begin \/ firstPart_Round
SpecFirstPart == InitSuiteUsed /\ [][NextFirstPart]_vars /\ WF_vars(NextFirstPart)

\* the two scenarios with fixed path sets
NextPaths == TestValidPaths \/ TestInvalidPaths \/ Unwind
SpecPaths == InitSuiteUsed /\ [][NextPaths]_vars

\* the state a scenario is in right after its call at a source line
After(scenario, line, call) ==
    /\ frame.scenario = scenario
    /\ frame.line = line
    /\ op = call

\* the files a client can have stored
Stored == {p \in ClientValidPaths : Exists(store, p)}

(***************************************************************************)
(* C2: in the loop of TestEventualConsistency, whenever the Stat issued    *)
(* right after WriteStream(path, offset, chunk) reports the size offset +  *)
(* chunkSize, the ReadStream(path, offset) that follows, read to its end,  *)
(* returns exactly the bytes of that chunk.  The backend may delay the     *)
(* new size; once it shows, the read matches.                              *)
(***************************************************************************)
ReadAfterStat(s, p, offset, chunk, publish) ==
    LET w == WriteStream(s, p, offset, chunk, publish)
        r == ReadStream(w.store, p, offset)
    IN  w.err = Nil /\ Stat(w.store, p).err = Nil
           /\ Stat(w.store, p).fi.size = offset + Len(chunk) =>
              r.err = Nil /\ ReadAll(r.reader) = chunk

C2_ReadAfterSuccessfulStat ==
    /\ pc = "client" =>
         \A p \in ClientValidPaths, offset \in 0..MaxLen, chunk \in ClientContents,
            publish \in BOOLEAN :
            ReadAfterStat(store, p, offset, chunk, publish)
    /\ frame.scenario = "TestEventualConsistency" /\ frame.line \in {876, 879, 886} =>
         ~frame.failed
    /\ After("TestEventualConsistency", 886, "ReadStream") =>
         /\ frame.err = Nil
         /\ frame.readContents = Val(randomBytes, frame.contents)
         /\ Len(frame.readContents) = frame.chunkSize

C2_Witness ==
    /\ After("TestEventualConsistency", 886, "ReadStream")
    /\ consistency = "eventual"
    /\ frame.misswrites > 0
    /\ frame.offset >= 2 * frame.chunkSize
    /\ frame.chunkSize = MaxChunk
    /\ frame.readContents[1] # frame.readContents[MaxChunk]

(***************************************************************************)
(* C3: WriteStream(P, offset, chunk) with offset beyond the current size   *)
(* of P succeeds, returns len(chunk), and leaves Stat(P).Size = offset +   *)
(* len(chunk) and GetContent(P) = the old content, then zero bytes for     *)
(* the gap, then chunk.  In testContinueStreamAppend: chunk 4 written one  *)
(* chunk length past chunk 3 passes every assertion of L429-443.           *)
(***************************************************************************)
WritePastEnd(s, p, offset, chunk) ==
    LET old == s[p].data
        r == WriteStream(s, p, offset, chunk, TRUE)
    IN  /\ r.err = Nil
        /\ r.nn = Len(chunk)
        /\ Stat(r.store, p).err = Nil
        /\ Stat(r.store, p).fi.size = offset + Len(chunk)
        /\ GetContent(r.store, p).err = Nil
        /\ GetContent(r.store, p).contents = old \o Zeros(offset - Len(old)) \o chunk

RewriteLast(s, p, chunk1, chunk2) ==
    LET w1 == WriteStream(s, p, 0, chunk1, TRUE)
        w2 == WriteStream(w1.store, p, Len(chunk1), chunk2, TRUE)
        w3 == WriteStream(w2.store, p, Len(chunk1), chunk2, TRUE)
    IN  /\ w1.err = Nil /\ w2.err = Nil /\ w3.err = Nil
        /\ w1.nn = Len(chunk1) /\ w2.nn = Len(chunk2) /\ w3.nn = Len(chunk2)
        /\ w3.store = w2.store
        /\ Stat(w3.store, p).fi.size = Len(chunk1) + Len(chunk2)
        /\ GetContent(w3.store, p).contents = chunk1 \o chunk2

ReadsSuffix(s, p, k) ==
    LET r == ReadStream(s, p, k)
    IN  /\ r.err = Nil
        /\ ReadAll(r.reader) = SubSeq(s[p].data, k + 1, Len(s[p].data))

C5_ReadStreamYieldsSuffix ==
    LET A == Val(randomBytes, frame.contentsChunk1)
        B == Val(randomBytes, frame.contentsChunk2)
        C == Val(randomBytes, frame.contentsChunk3)
    IN  /\ pc = "client" =>
             \A p \in Stored : \A k \in 0..Len(store[p].data) : ReadsSuffix(store, p, k)
        /\ frame.scenario = "TestReadStreamWithOffset" /\ frame.line \in {293, 296, 305, 314} =>
             ~frame.failed
        /\ After("TestReadStreamWithOffset", 296, "ReadStream") =>
             frame.readContents = A \o B \o C
        /\ After("TestReadStreamWithOffset", 305, "ReadStream") =>
             frame.readContents = B \o C
        /\ After("TestReadStreamWithOffset", 314, "ReadStream") =>
             frame.readContents = C

C5_Witness ==
    /\ After("TestReadStreamWithOffset", 305, "ReadStream")
    /\ frame.chunkSize = MaxChunk
    /\ Len(frame.readContents) = 2 * MaxChunk
    /\ frame.readContents[1] # frame.readContents[MaxChunk]

(***************************************************************************)
(* C6: ReadStream(P, -1) and WriteStream(P, -1, r) fail with an            *)
(* InvalidOffset error of offset -1 and path P, whether P exists or not;   *)
(* ReadStream returns no reader, the text of the error contains the name   *)
(* of the driver, and what P holds is unchanged.                           *)
(***************************************************************************)
NegativeOffset(s, p, chunk) ==
    LET r == ReadStream(s, p, 0 - 1)
        w == WriteStream(s, p, 0 - 1, chunk, TRUE)
    IN  /\ IsInvalidOffset(r.err, p)
        /\ r.reader = NoReader
        /\ IsInvalidOffset(w.err, p)
        /\ w.store = s

C6_NegativeOffsetRejected ==
    /\ pc = "client" =>
         \A p \in ClientValidPaths, chunk \in ClientContents : NegativeOffset(store, p, chunk)
    /\ frame.scenario = "TestReadStreamWithOffset" /\ frame.line = 323 => ~frame.failed
    /\ frame.scenario = "testContinueStreamAppend" /\ frame.line = 446 => ~frame.failed
    /\ After("TestReadStreamWithOffset", 323, "ReadStream") =>
         /\ IsInvalidOffset(frame.err, frame.filename)
         /\ frame.reader = NoReader
         /\ store[frame.filename].data =
               Val(randomBytes, frame.contentsChunk1) \o Val(randomBytes, frame.contentsChunk2)
               \o Val(randomBytes, frame.contentsChunk3)
    /\ After("testContinueStreamAppend", 446, "WriteStream") =>
         /\ IsInvalidOffset(frame.err, frame.filename)
         /\ store[frame.filename].data = Val(randomBytes, frame.fullContents)

C6_Witness ==
    /\ After("testContinueStreamAppend", 446, "WriteStream")
    /\ frame.err = InvalidOffsetError(frame.filename, 0 - 1)
    /\ store[frame.filename].data[1] = 1

(***************************************************************************)
(* C7: for content of size n >= 1, ReadStream(P, n) succeeds and its       *)
(* first Read returns 0 bytes and end-of-stream; ReadStream(P, n-1)        *)
(* succeeds, its first Read returns 1 byte with no error or with           *)
(* end-of-stream, and every Read after that returns 0 bytes and            *)
(* end-of-stream.                                                          *)
(***************************************************************************)
EndBoundary(s, p, size, eofWithData) ==
    LET n == Len(s[p].data)
        atEnd == ReadStream(s, p, n)
        before == ReadStream(s, p, n - 1)
        first == Read(before.reader, size, eofWithData)
        second == Read(first.reader, size, eofWithData)
        third == Read(second.reader, size, eofWithData)
    IN  /\ atEnd.err = Nil
        /\ Read(atEnd.reader, size, eofWithData).n = 0
        /\ Read(atEnd.reader, size, eofWithData).eof
        /\ before.err = Nil
        /\ first.n = 1
        /\ first.eof = eofWithData
        /\ second.n = 0 /\ second.eof
        /\ third.n = 0 /\ third.eof

C7_EndOfStreamBoundary ==
    /\ pc = "client" =>
         \A p \in Stored, size \in Sizes, eofWithData \in BOOLEAN :
            Len(store[p].data) >= 1 => EndBoundary(store, p, size, eofWithData)
    /\ frame.scenario = "TestReadStreamWithOffset" /\ frame.line \in {332, 342, 356} =>
         ~frame.failed
    /\ After("TestReadStreamWithOffset", 332, "ReadStream") =>
         frame.err = Nil /\ frame.n = 0 /\ frame.eof
    /\ After("TestReadStreamWithOffset", 342, "ReadStream") =>
         frame.err = Nil /\ frame.n = 1
    /\ After("TestReadStreamWithOffset", 356, "Read") =>
         frame.n = 0 /\ frame.eof

C7_Witness ==
    /\ After("TestReadStreamWithOffset", 356, "Read")
    /\ frame.chunkSize = MaxChunk
    /\ frame.n = 0
    /\ frame.eof
    /\ frame.reader.open

(***************************************************************************)
(* C8: for every invalid path (empty, not starting with a slash, the       *)
(* slash alone, holding two slashes in a row, or ending with a slash),     *)
(* PutContent, GetContent and Stat each fail with InvalidPath, the text    *)
(* of the error contains the name of the driver, and nothing is stored:    *)
(* the listing of the root is what it was.                                 *)
(***************************************************************************)
InvalidPaths == ClientInvalidPaths \cup Range(invalidFiles)

Rejected(s, p, contents) ==
    LET put == PutContent(s, p, contents)
    IN  /\ ~ValidPath(p)
        /\ IsInvalidPath(put.err)
        /\ IsInvalidPath(GetContent(s, p).err)
        /\ IsInvalidPath(Stat(s, p).err)
        /\ put.store = s
        /\ List(put.store, <<Slash>>) = List(s, <<Slash>>)

C8_InvalidPathsRejected ==
    /\ pc = "client" =>
         \A p \in InvalidPaths, contents \in ClientContents : Rejected(store, p, contents)
    /\ frame.scenario = "TestInvalidPaths" => ~frame.failed
    /\ After("TestInvalidPaths", 145, "PutContent") =>
         /\ IsInvalidPath(frame.err)
         /\ store = EmptyStore
         /\ List(store, <<Slash>>).keys = {}
    /\ After("TestInvalidPaths", 151, "GetContent") =>
         /\ IsInvalidPath(frame.err)
         /\ frame.received = <<>>

C8_Witness ==
    /\ After("TestInvalidPaths", 151, "GetContent")
    /\ frame.i = Len(invalidFiles) + 1
    /\ frame.filename[Len(frame.filename)] = Slash
    /\ Len(frame.deferred) = Len(invalidFiles)
    /\ pc = "return"

(***************************************************************************)
(* C9: after a successful Move(src, dst) of a stored content entry,        *)
(* GetContent(dst) returns exactly what src held before the move,          *)
(* whatever dst held before (longer content included), and                 *)
(* GetContent(src) fails with PathNotFound.                                *)
(***************************************************************************)
Moved(s, sourcePath, destPath) ==
    LET m == Move(s, sourcePath, destPath)
    IN  m.err = Nil =>
           /\ GetContent(m.store, destPath).err = Nil
           /\ GetContent(m.store, destPath).contents = s[sourcePath].data
           /\ IsPathNotFound(GetContent(m.store, sourcePath).err)

C9_MoveRelocates ==
    /\ pc = "client" =>
         \A sourcePath \in Stored, destPath \in ClientValidPaths :
            Moved(store, sourcePath, destPath)
    /\ frame.scenario \in {"TestMove", "TestMoveOverwrite"}
          /\ frame.sourcePath # frame.destPath =>
         ~frame.failed
    /\ (After("TestMove", 521, "GetContent") \/ After("TestMoveOverwrite", 551, "GetContent"))
          /\ frame.sourcePath # frame.destPath =>
         /\ frame.err = Nil
         /\ frame.received = Val(randomBytes, frame.sourceContents)
         /\ ~Exists(store, frame.sourcePath)
    /\ (After("TestMove", 525, "GetContent") \/ After("TestMoveOverwrite", 555, "GetContent")) =>
         IsPathNotFound(frame.err)

C9_Witness ==
    /\ After("TestMoveOverwrite", 555, "GetContent")
    /\ ~frame.failed
    /\ IsPathNotFound(frame.err)
    /\ Len(frame.received) = MaxChunk
    /\ Len(Val(randomBytes, frame.destContents)) = 2 * MaxChunk
    /\ store[frame.destPath].data = frame.received

(***************************************************************************)
(* C10: Move(src, dst) where src does not exist fails with PathNotFound,   *)
(* the text of the error containing the name of the driver, and leaves     *)
(* the store as it was: GetContent(dst) still returns what dst held.       *)
(***************************************************************************)
MoveOfMissing(s, sourcePath, destPath) ==
    LET m == Move(s, sourcePath, destPath)
    IN  /\ IsPathNotFound(m.err)
        /\ m.store = s
        /\ GetContent(m.store, destPath) = GetContent(s, destPath)

C10_MoveMissingSource ==
    /\ pc = "client" =>
         \A sourcePath \in ClientValidPaths, destPath \in ClientValidPaths :
            ~Exists(store, sourcePath) /\ ~IsDirPrefix(store, sourcePath) =>
               MoveOfMissing(store, sourcePath, destPath)
    /\ frame.scenario = "TestMoveNonexistent" /\ frame.sourcePath # frame.destPath =>
         ~frame.failed
    /\ After("TestMoveNonexistent", 573, "Move") /\ frame.sourcePath # frame.destPath =>
         /\ IsPathNotFound(frame.err)
         /\ store[frame.destPath].data = Val(randomBytes, frame.destContents)
         /\ DOMAIN store = {frame.destPath}
    /\ After("TestMoveNonexistent", 578, "GetContent") /\ frame.sourcePath # frame.destPath =>
         frame.received = Val(randomBytes, frame.destContents)

C10_Witness ==
    /\ After("TestMoveNonexistent", 578, "GetContent")
    /\ ~frame.failed
    /\ Len(frame.received) = MaxChunk
    /\ frame.received[1] # frame.received[MaxChunk]
    /\ Exists(store, frame.destPath)
    /\ ~Exists(store, frame.sourcePath)

(***************************************************************************)
(* C11: Delete(P) on a content entry removes P alone: every other entry,   *)
(* siblings under the same directory prefix included, stays readable.      *)
(* Delete(D) on a directory prefix removes every content entry below D,    *)
(* so that GetContent on each fails with PathNotFound, and nothing that    *)
(* is not below D.                                                         *)
(***************************************************************************)
DeletesEntry(s, p) ==
    LET d == Delete(s, p)
    IN  /\ d.err = Nil
        /\ DOMAIN d.store = DOMAIN s \ {p}
        /\ IsPathNotFound(GetContent(d.store, p).err)
        /\ \A q \in DOMAIN s \ {p} : GetContent(d.store, q) = GetContent(s, q)

DeletesBelow(s, dir) ==
    LET d == Delete(s, dir)
    IN  /\ d.err = Nil
        /\ \A q \in DOMAIN s :
              IF Below(dir, q) THEN IsPathNotFound(GetContent(d.store, q).err)
              ELSE GetContent(d.store, q) = GetContent(s, q)

\* the three files of TestDeleteFolder are three paths
ThreeFiles == Cardinality({frame.filename1, frame.filename2, frame.filename3}) = 3

C11_DeleteRemovesExactly ==
    /\ pc = "client" =>
         /\ \A p \in Stored : DeletesEntry(store, p)
         /\ \A dir \in ClientValidPaths : IsDirPrefix(store, dir) => DeletesBelow(store, dir)
    /\ frame.scenario = "TestDelete" => ~frame.failed
    /\ After("TestDelete", 608, "Delete") => store = EmptyStore
    /\ frame.scenario = "TestDeleteFolder" /\ ThreeFiles => ~frame.failed
    /\ After("TestDeleteFolder", 681, "Delete") /\ ThreeFiles =>
         DOMAIN store = {Join(frame.dirname, frame.filename2),
                         Join(frame.dirname, frame.filename3)}
    /\ After("TestDeleteFolder", 692, "GetContent") /\ ThreeFiles =>
         /\ frame.err = Nil
         /\ ~Exists(store, Join(frame.dirname, frame.filename1))
    /\ After("TestDeleteFolder", 695, "Delete") /\ ThreeFiles =>
         store = EmptyStore

C11_Witness ==
    /\ After("TestDeleteFolder", 708, "GetContent")
    /\ ThreeFiles
    /\ ~frame.failed
    /\ IsPathNotFound(frame.err)
    /\ store = EmptyStore
    /\ pc = "return"

(***************************************************************************)
(* C12: for a valid path P that holds no content and is no directory       *)
(* prefix, GetContent(P), ReadStream(P, k) for every k >= 0, Stat(P) and   *)
(* Delete(P) each fail with PathNotFound, the text of the error            *)
(* containing the name of the driver, and the failed call leaves the       *)
(* store as it was.                                                        *)
(***************************************************************************)
Missing(s, p) ==
    /\ IsPathNotFound(GetContent(s, p).err)
    /\ \A k \in 0..(2 * MaxChunk) :
          /\ IsPathNotFound(ReadStream(s, p, k).err)
          /\ ReadStream(s, p, k).reader = NoReader
    /\ IsPathNotFound(Stat(s, p).err)
    /\ Stat(s, p).fi = NoFileInfo
    /\ IsPathNotFound(Delete(s, p).err)
    /\ Delete(s, p).store = s

C12_MissingPathNotFound ==
    /\ pc = "client" =>
         \A p \in ClientValidPaths :
            ~Exists(store, p) /\ ~IsDirPrefix(store, p) => Missing(store, p)
    /\ frame.scenario \in {"TestReadNonexistent", "TestReadNonexistentStream",
                           "TestDeleteNonexistent"} =>
         /\ ~frame.failed
         /\ IsPathNotFound(frame.err)
         /\ frame.err.path = frame.filename
         /\ store = EmptyStore

C12_Witness ==
    /\ After("TestReadNonexistentStream", 464, "ReadStream")
    /\ ~frame.failed
    /\ frame.err = PathNotFoundError(frame.filename)
    /\ pc = "done"

(***************************************************************************)
(* C13: in every reachable store, List(D) returns exactly the absolute     *)
(* paths one level below D (each D + "/" + segment that is a content       *)
(* entry or a prefix of one) and nothing deeper; List("/") always          *)
(* succeeds and is empty when the store holds no content; a directory      *)
(* prefix is listed no more once its last descendant is deleted.           *)
(***************************************************************************)
\* child is dir + "/" + one segment
IsChildOf(dir, child) ==
    LET base == IF dir = <<Slash>> THEN dir ELSE dir \o <<Slash>>
    IN  /\ HasPrefix(child, base)
        /\ Len(child) > Len(base)
        /\ \A i \in (Len(base) + 1)..Len(child) : child[i] # Slash

\* the content entries of s and the directory prefixes above them
Nodes(s) ==
    {n \in UNION {{SubSeq(q, 1, k) : k \in 2..Len(q)} : q \in DOMAIN s} :
        \E q \in DOMAIN s : n = q \/ (HasPrefix(q, n) /\ Len(q) > Len(n) /\ q[Len(n) + 1] = Slash)}

RECURSIVE DeleteEach(_, _)
DeleteEach(s, paths) ==
    IF paths = {} THEN s
    ELSE LET p == CHOOSE q \in paths : TRUE
         IN  DeleteEach(Delete(s, p).store, paths \ {p})

ListsChildren(s, dir) ==
    LET r == List(s, dir)
        emptied == DeleteEach(s, {q \in DOMAIN s : Below(dir, q)})
    IN  /\ dir = <<Slash>> \/ IsDirPrefix(s, dir) => r.err = Nil
        /\ r.err = Nil => r.keys = {n \in Nodes(s) : IsChildOf(dir, n)}
        /\ s = EmptyStore /\ dir = <<Slash>> => r.keys = {}
        /\ \A key \in r.keys :
              LET gone == DeleteEach(s, {q \in DOMAIN s : q = key \/ Below(key, q)})
              IN  /\ key \notin List(gone, dir).keys
                  /\ List(gone, dir).keys = r.keys \ {key} \/ List(gone, dir).err # Nil

\* the files TestList has put are different files
DifferentChildren == Cardinality(Range(frame.childFiles)) = Len(frame.childFiles)

C13_ListDirectChildren ==
    /\ pc = "client" =>
         \A dir \in ClientValidPaths \cup {<<Slash>>} : ListsChildren(store, dir)
    /\ frame.scenario = "TestRootExists" => ~frame.failed /\ frame.err = Nil
    /\ frame.scenario = "TestList" /\ DifferentChildren => ~frame.failed
    /\ After("TestList", 485, "List") /\ DifferentChildren =>
         frame.keys = <<frame.rootDirectory>>
    /\ After("TestList", 489, "List") /\ DifferentChildren =>
         frame.keys = <<frame.parentDirectory>>
    /\ After("TestList", 493, "List") /\ DifferentChildren =>
         /\ frame.keys = frame.childFiles
         /\ Range(frame.keys) = DOMAIN store
         /\ \A i \in 1..Len(frame.keys) : IsChildOf(frame.parentDirectory, frame.keys[i])
         /\ \A i \in 1..(Len(frame.keys) - 1) : StringLess(frame.keys[i], frame.keys[i + 1])

C13_Witness ==
    /\ After("TestList", 493, "List")
    /\ ~frame.failed
    /\ Len(frame.keys) = Children
    /\ frame.keys[1] # frame.keys[Children]
    /\ pc = "return"

(***************************************************************************)
(* C14: Stat(P) on a content entry returns the path P, the number of       *)
(* bytes stored as size, and no directory flag; Stat(D) on a directory     *)
(* prefix (descendants, no content of its own) returns the path D, size 0  *)
(* and the directory flag; Stat on a path with neither returns             *)
(* PathNotFound and a nil FileInfo.                                        *)
(***************************************************************************)
StatReports(s, p) ==
    LET r == Stat(s, p)
    IN  IF Exists(s, p)
        THEN /\ r.err = Nil /\ ~r.fi.nil
             /\ r.fi.path = p
             /\ r.fi.size = Len(GetContent(s, p).contents)
             /\ r.fi.isDir = FALSE
        ELSE IF \E q \in DOMAIN s : Below(p, q)
        THEN /\ r.err = Nil /\ ~r.fi.nil
             /\ r.fi.path = p
             /\ r.fi.size = 0
             /\ r.fi.isDir = TRUE
        ELSE IsPathNotFound(r.err) /\ r.fi.nil

C14_StatReports ==
    /\ pc = "client" => \A p \in ClientValidPaths : StatReports(store, p)
    /\ frame.scenario = "TestStatCall" => ~frame.failed
    /\ After("TestStatCall", 724, "Stat") \/ After("TestStatCall", 730, "Stat") =>
         IsPathNotFound(frame.err) /\ frame.fi.nil
    /\ After("TestStatCall", 740, "Stat") \/ After("TestStatCall", 753, "Stat") =>
         /\ frame.fi.path = frame.filePath
         /\ frame.fi.size = Len(store[frame.filePath].data)
         /\ frame.fi.size = MaxChunk
         /\ ~frame.fi.isDir
    /\ After("TestStatCall", 768, "Stat") =>
         /\ frame.fi.path = frame.dirPath
         /\ frame.fi.size = 0
         /\ frame.fi.isDir
         /\ ~Exists(store, frame.dirPath)

C14_Witness ==
    /\ After("TestStatCall", 768, "Stat")
    /\ ~frame.failed
    /\ frame.fi.isDir
    /\ Exists(store, frame.filePath)
    /\ pc = "return"

(***************************************************************************)
(* C19: in TestStatCall the modification time compared with the creation   *)
(* time is strictly later after the overwrite, the propagation delay       *)
(* being tolerated: the Stat whose timestamp is compared is obtained       *)
(* after the wait, so a backend that shows the new metadata within that    *)
(* wait passes.                                                            *)
(***************************************************************************)
C19_ModTimeAfterWait ==
    After("TestStatCall", 762, "Sleep") =>
       /\ frame.modTime = StatAt(store, frame.filePath, frame.now).fi.modTime
       /\ frame.modTime > frame.createdTime
       /\ ~frame.errorf

(***************************************************************************)
(* C15: with one object written by PutContent and the readers started      *)
(* together, each opening ReadStream at its own offset o in [0, size) and  *)
(* reading to the end of the stream, every reader reads exactly            *)
(* contents[o:], however the readers interleave.                           *)
(***************************************************************************)
C15_ConcurrentReadersSeeSuffix ==
    frame.scenario = "TestConcurrentStreamReads" /\ ~frame.panicked =>
       LET contents == Val(randomBytes, frame.contents)
       IN  /\ ~frame.failed
           /\ pc \in {"csr_go", "csr_wait"} => store[frame.filename].data = contents
           /\ \A i \in 1..Readers :
                 LET w == frame.workers[i]
                 IN  /\ ~w.failed
                     /\ w.pc \in {"read", "compare", "done"} =>
                           w.readContents \o w.reader.rest =
                              SubSeq(contents, w.offset + 1, Len(contents))
                     /\ w.pc \in {"compare", "done"} =>
                           w.readContents = SubSeq(contents, w.offset + 1, Len(contents))

C15_Witness ==
    /\ frame.scenario = "TestConcurrentStreamReads"
    /\ pc = "return"
    /\ frame.line = 832
    /\ ~frame.failed
    /\ \A i \in 1..Readers : frame.workers[i].pc = "done"
    /\ frame.workers[1].offset # frame.workers[Readers].offset
    /\ Len(frame.workers[1].readContents) = ShortFileSize

(***************************************************************************)
(* C16: in the concurrent-writers scenario every worker's WriteStream      *)
(* reports the full size and its read-back is exactly the bytes it wrote,  *)
(* for every interleaving and every outcome of the random path generator:  *)
(* no worker's write or cleanup reaches a file another worker still uses.  *)
(***************************************************************************)
C16_WritersIndependent ==
    frame.scenario = "TestConcurrentFileStreams" =>
       /\ ~frame.failed
       /\ \A i \in 1..Writers :
             LET w == frame.workers[i]
             IN  /\ ~w.failed
                 /\ w.pc \in {"open", "readall"} =>
                       /\ w.nn = frame.size
                       /\ Exists(store, w.filename)
                       /\ Visible(store[w.filename]) = w.tf
                 /\ w.pc \in {"deferred", "done"} => w.readContents = w.tf

(***************************************************************************)
(* C17: after every scenario the harness lists the root and fails the run  *)
(* whenever the backend still holds an entry; no scenario ends with a      *)
(* non-empty namespace and the run going on unreported, also when the      *)
(* listing of the root itself returns an error.                            *)
(***************************************************************************)
C17_LeftoversAbortRun ==
    frame.scenario = "TearDownTest" /\ store # EmptyStore =>
       /\ frame.fatal
       /\ pc = "aborted"

\* how often and where an event is in the log of the run
Count(log, e) == Len(SelectSeq(log, LAMBDA x : x = e))
Before(log, a, b) ==
    \A i, j \in 1..Len(log) : log[i] = a /\ log[j] = b => i < j

\* driver operations only after an empty skip reason and a constructor
\* without error; none after a skip or a constructor error
ScenariosOnlyWhenSetUp ==
    /\ Count(frame.log, "Scenario") > 0 =>
          /\ frame.reason = ""
          /\ frame.StorageDriver
          /\ Before(frame.log, "SkipCheck", "Scenario")
          /\ Before(frame.log, "Constructor", "Scenario")
    /\ frame.reason # "" =>
          Count(frame.log, "Constructor") = 0 /\ Count(frame.log, "Scenario") = 0
    /\ frame.err => Count(frame.log, "Scenario") = 0

\* a teardown that is set is called once, after every scenario
TeardownOnceAtEnd ==
    /\ Count(frame.log, "Teardown") <= 1
    /\ Before(frame.log, "Scenario", "Teardown")
    /\ pc = "finished" /\ frame.Teardown /\ frame.StorageDriver =>
          Count(frame.log, "Teardown") = 1
    /\ ~frame.Teardown => Count(frame.log, "Teardown") = 0

(***************************************************************************)
(* C18: driver operations are issued only after the skip predicate         *)
(* returned an empty reason and the constructor returned a driver without  *)
(* error; after a non-empty skip reason the constructor is never called    *)
(* and no scenario runs; after a constructor error no scenario runs; the   *)
(* teardown, when set, is invoked exactly once, after all scenarios, and   *)
(* only for an instance that was constructed.                              *)
(***************************************************************************)
C18_LifecycleOrder ==
    frame.scenario = "suite" =>
       /\ ScenariosOnlyWhenSetUp
       /\ TeardownOnceAtEnd
       /\ Count(frame.log, "Teardown") > 0 => frame.StorageDriver

(***************************************************************************)
(* C20: a reader from newRandReader(n) is bounded: over any sequence of    *)
(* Read calls with any buffer sizes it delivers n bytes in all, reports    *)
(* end-of-stream no later than the call that delivers the n-th byte, and   *)
(* delivers nothing after end-of-stream; newRandReader(0) delivers none.   *)
(***************************************************************************)
C20_RandReaderBounded ==
    frame.scenario = "randReader" =>
       /\ frame.delivered <= frame.n
       /\ frame.eof => frame.atEOF = frame.n
       /\ frame.calls > 0 /\ frame.delivered >= frame.n => frame.eof
       /\ frame.afterEOF = 0
       /\ frame.n = 0 => frame.delivered = 0

(***************************************************************************)
(* C21: every call randomContents(length) of a scenario, a benchmark or    *)
(* randReader.Read, in normal and in short mode, has                       *)
(* 0 <= length <= len(randomBytes): the slice never fails and is length    *)
(* bytes long.                                                             *)
(***************************************************************************)
C21_BufferCoversEverySize ==
    frame.scenario = "randomContents" =>
       /\ ~frame.panicked
       /\ frame.returned = frame.length

\* a top-level path: a slash and one segment that is not empty and has no
\* slash in it
IsTopLevel(q) ==
    /\ Len(q) >= 2
    /\ q[1] = Slash
    /\ \A i \in 2..Len(q) : q[i] # Slash

(***************************************************************************)
(* C22: for every path string the harness passes to firstPart, the six     *)
(* strings of the invalid-path set among them, firstPart returns a slash   *)
(* and one non-empty segment without a slash, so no deferred cleanup is a  *)
(* Delete of the root or of a path with a trailing or doubled slash.       *)
(***************************************************************************)
C22_FirstPartIsTopLevel ==
    /\ pc = "client" => \A p \in randomPath(PathLen) : IsTopLevel(firstPart(p))
    /\ frame.scenario = "TestInvalidPaths" =>
          \A i \in 1..Len(frame.deferred) : IsTopLevel(frame.deferred[i])

\* two slices over the same bytes of randomBytes
SameBytes(a, b) == a.alias /\ b.alias /\ a.n > 0 /\ b.n > 0

\* scenarios that build the expected content by append
Appending == {"TestReadStreamWithOffset", "testContinueStreamAppend"}

(***************************************************************************)
(* C23: the buffers of successive randomContents calls are independent:    *)
(* appending to one of them, as the offset and resumable-append scenarios  *)
(* do, changes neither another buffer returned before nor the source       *)
(* buffer randomBytes, and the chunks of separate calls in one scenario    *)
(* are not the same bytes.                                                 *)
(***************************************************************************)
C23_RandomContentsIndependent ==
    [][frame'.scenario \in Appending =>
          /\ randomBytes' = randomBytes
          /\ ~SameBytes(frame'.contentsChunk1, frame'.contentsChunk2)]_vars

(***************************************************************************)
(* C24: in the list benchmark, after PutContent of numFiles entries at     *)
(* parentDir joined with a fresh random path each, List(parentDir) of a    *)
(* driver that lists direct children only returns exactly numFiles         *)
(* entries, for every outcome of the random path generator.                *)
(***************************************************************************)
C24_ListBenchmarkCount ==
    frame.scenario = "benchmarkListFiles" =>
       /\ ~frame.failed
       /\ frame.line = 1010 => Cardinality(frame.files) = frame.numFiles

\* every entry of the store is at or below a path whose Delete is deferred
Covered ==
    \A q \in DOMAIN store :
       \E i \in 1..Len(frame.deferred) :
          /\ ValidPath(frame.deferred[i])
          /\ frame.deferred[i] = q \/ Below(frame.deferred[i], q)

(***************************************************************************)
(* C25: a scenario started on an empty store with a driver whose Delete    *)
(* conforms leaves the root namespace empty when it exits, by return or by *)
(* a failed assertion at any step: what it has written is below a prefix   *)
(* whose Delete is deferred before the first assertion that can stop it    *)
(* after the write.                                                        *)
(***************************************************************************)
C25_ScenarioLeavesNothing ==
    frame.scenario = "TestMoveInvalid" =>
       /\ pc = "mi_assert" => Covered
       /\ pc = "done" => store = EmptyStore

\* the two scenarios with a sync.WaitGroup
Concurrent == {"TestConcurrentStreamReads", "TestConcurrentFileStreams"}

\* wg.Wait() has returned (L832, L857)
Waited == frame.scenario \in Concurrent /\ frame.line \in {832, 857}

(***************************************************************************)
(* C26: in both concurrency scenarios the body gets past the barrier only  *)
(* after every started worker has finished, and, every driver call         *)
(* returning, the scenario always comes to its end: a worker stopped by a  *)
(* failed assertion still signals completion, so the barrier never waits   *)
(* forever.                                                                *)
(***************************************************************************)
C26_BarrierCompletes ==
    /\ [](Waited => \A i \in DOMAIN frame.workers :
                       frame.workers[i].pc \in {"done", "absent"})
    /\ (frame.scenario \in Concurrent) ~> (pc = "done")

C26_Witness ==
    /\ Waited
    /\ pc = "done"
    /\ \E i \in DOMAIN frame.workers : frame.workers[i].failed
    /\ \E i \in DOMAIN frame.workers : ~frame.workers[i].failed

\* TestEventualConsistency is in its loop or past it
InLoop == frame.scenario = "TestEventualConsistency" /\ ~frame.skipped

\* the iterations done are hits and misses, and each hit has moved the
\* offset on by one chunk
LoopAccounts ==
    InLoop =>
       /\ frame.misswrites <= frame.i
       /\ frame.i <= Iterations
       /\ frame.offset = (frame.i - frame.misswrites) * frame.chunkSize
       /\ frame.line = 905 =>
             /\ frame.i = Iterations
             /\ frame.failed <=> frame.misswrites = Iterations

\* the offset moves only in a step where Stat has reported offset+chunkSize,
\* and by what WriteStream reported
OffsetMovesOnHit ==
    InLoop /\ frame'.scenario = frame.scenario /\ frame'.offset # frame.offset =>
       /\ pc = "ec_if"
       /\ frame.fi.size = frame.offset + frame.chunkSize
       /\ frame'.offset = frame.offset + frame.read
       /\ frame'.misswrites = frame.misswrites

(***************************************************************************)
(* C27: over the iterations of TestEventualConsistency the write offset    *)
(* advances only where Stat reported offset + chunkSize, by the byte count *)
(* WriteStream reported, and stays on a miss; hits and misswrites add up   *)
(* to the iterations done; without operation errors and mismatches the     *)
(* scenario fails exactly when every iteration was a miss.                 *)
(***************************************************************************)
C27_LoopAccounting == [](LoopAccounts) /\ [][OffsetMovesOnHit]_vars

C27_Witness ==
    /\ InLoop
    /\ frame.line = 905
    /\ frame.misswrites > 0
    /\ frame.misswrites < Iterations
    /\ ~frame.failed

\* no two slashes side by side
NoDoubleSlash(p) == \A i \in 1..(Len(p) - 1) : ~(p[i] = Slash /\ p[i + 1] = Slash)

\* what the claim asks of the string randomPath(n) returns
GrammarOfLength(p, n) ==
    /\ Len(p) = n
    /\ p[1] = Slash
    /\ p[2] # Slash
    /\ NoDoubleSlash(p)
    /\ p[Len(p)] # Slash

IsSeparator(c) == c \in Range(separatorChars)

\* what the claim asks of the string randomFilename(k) returns
FilenameOfLength(b, k) ==
    /\ Len(b) = k
    /\ \A i \in 1..Len(b) : b[i] # Slash
    /\ k > 0 => ~IsSeparator(b[1]) /\ ~IsSeparator(b[k])
    /\ \A i \in 1..(Len(b) - 1) : ~(IsSeparator(b[i]) /\ IsSeparator(b[i + 1]))

GeneratorsReturnGrammar ==
    /\ frame.scenario = "randomPath" /\ pc = "done" =>
          /\ GrammarOfLength(frame.path, frame.length)
          /\ frame.path \in randomPath(frame.length)
    /\ frame.scenario = "randomFilename" /\ pc = "done" =>
          FilenameOfLength(frame.b, frame.length)
    /\ pc = "start" =>
          /\ \A n \in 2..GenLen : \A p \in randomPath(n) : GrammarOfLength(p, n)
          /\ \A k \in 0..GenLen : \A b \in randomFilename(k) : FilenameOfLength(b, k)

(***************************************************************************)
(* C28: for every length n >= 2 and every outcome of the random choices    *)
(* randomPath(n) returns, and what it returns has n characters, starts     *)
(* with exactly one slash, has no two slashes side by side and no slash at *)
(* its end; randomFilename(k) returns k characters, none a slash, with no  *)
(* separator first or last and no two separators side by side.             *)
(***************************************************************************)
C28_GeneratorsKeepGrammar ==
    /\ [](GeneratorsReturnGrammar)
    /\ (frame.scenario = "randomPath") ~> (pc = "done")

\* a path of several segments, one of them with a separator, has been returned
C28_Witness ==
    /\ frame.scenario = "randomPath"
    /\ pc = "done"
    /\ frame.rounds > 1
    /\ \E i \in 1..Len(frame.path) : IsSeparator(frame.path[i])
    /\ \E i \in 2..Len(frame.path) : frame.path[i] = Slash

\* Delete(q) on the driver of the contract removes the file written at p
DeleteRemoves(q, p) ==
    \A contents \in ClientContents :
       LET written == PutContent(store, p, contents)
           deleted == Delete(written.store, q)
       IN  /\ written.err = Nil
           /\ Exists(written.store, p)
           /\ deleted.err = Nil
           /\ ~Exists(deleted.store, p)

FirstPartIsFirstSegment ==
    frame.scenario = "firstPart" /\ pc = "done" =>
       LET p == frame.p
           q == frame.result
       IN  /\ ValidPath(p)
           /\ q = firstPart(p)
           /\ ValidPath(q)
           /\ \A i \in 2..Len(q) : q[i] # Slash
           /\ p = q \/ HasPrefix(p, q \o <<Slash>>)
           /\ firstPart(q) = q
           /\ DeleteRemoves(q, p)

(***************************************************************************)
(* C29: for every valid path p firstPart(p) returns, and what it returns   *)
(* is the slash and the first segment of p: a valid path q of one segment  *)
(* with p = q or p starting with q and a slash, and firstPart(q) = q; so   *)
(* Delete(firstPart(p)) on a conforming driver removes p.                  *)
(***************************************************************************)
C29_FirstPartOfValidPath ==
    /\ [](FirstPartIsFirstSegment)
    /\ (frame.scenario = "firstPart") ~> (pc = "done")

\* firstPart has returned for a path of three segments
C29_Witness ==
    /\ frame.scenario = "firstPart"
    /\ pc = "done"
    /\ frame.rounds = 3
    /\ frame.result # frame.p

\* the five conditions of the path grammar, one by one
Condition(k, p) ==
    CASE k = 1 -> Len(p) > 0
      [] k = 2 -> Len(p) > 0 /\ p[1] = Slash
      [] k = 3 -> p # <<Slash>>
      [] k = 4 -> \A i \in 1..(Len(p) - 1) : ~(p[i] = Slash /\ p[i + 1] = Slash)
      [] k = 5 -> ~(Len(p) > 0 /\ p[Len(p)] = Slash)

Conditions == 1..5

(***************************************************************************)
(* C30: each of the 16 paths of the valid set of TestValidPaths is         *)
(* non-empty, starts with a slash, is not the slash alone, has no two      *)
(* slashes side by side and no slash at its end; each of the 6 paths of    *)
(* the invalid set of TestInvalidPaths breaks at least one of the five     *)
(* conditions, and every one of the five is broken by some path of the     *)
(* invalid set.                                                            *)
(***************************************************************************)
C30_FixedPathSetsAgree ==
    /\ Len(validFiles) = 16
    /\ Len(invalidFiles) = 6
    /\ \A i \in 1..Len(validFiles) : \A k \in Conditions : Condition(k, validFiles[i])
    /\ \A i \in 1..Len(invalidFiles) : \E k \in Conditions : ~Condition(k, invalidFiles[i])
    /\ \A k \in Conditions : \E i \in 1..Len(invalidFiles) : ~Condition(k, invalidFiles[i])
    /\ frame.scenario = "TestValidPaths" /\ frame.line = 122 =>
          /\ frame.filename = validFiles[frame.i]
          /\ \A k \in Conditions : Condition(k, frame.filename)
          /\ ValidPath(frame.filename)
    /\ frame.scenario = "TestInvalidPaths" /\ frame.line = 145 =>
          /\ frame.filename = invalidFiles[frame.i]
          /\ \E k \in Conditions : ~Condition(k, frame.filename)
          /\ ~ValidPath(frame.filename)

\* every path of the valid set has been put and read back
C30_Witness ==
    /\ frame.scenario = "TestValidPaths"
    /\ pc = "return"
    /\ ~frame.failed
    /\ Len(frame.deferred) = Len(validFiles)
    /\ Cardinality(DOMAIN store) = Len(validFiles)

====
